---------------------------- MODULE Spec2Model ----------------------------
(***************************************************************************)
(* Model of the MPAQ mix converter (converters/mixes/MPAQ.ts): the field   *)
(* extractors, the materials lookup builder and convertMPAQMixes.          *)
(*                                                                         *)
(* JavaScript values are records [t, v]: t is the JS type, v the string    *)
(* the value prints as (String(x)); a number is kept as its canonical      *)
(* decimal print ("180", "0.4", "-5", "NaN"), so that String(), parseFloat *)
(* and truthiness are computed, not assumed.  Arrays are sequences; JS     *)
(* index j is TLA+ index j+1 (see At).                                     *)
(***************************************************************************)
EXTENDS Integers, Sequences, FiniteSets, TLC

VARIABLES mixData, materialsData, materialsLookup, result, pc,
          fieldValue, extracted,
          finalColumns, calls,
          activeTab, selectedDispatch, files, isProcessing, error, success,
          convertedData, originalConvertedData, showInlinePreview,
          conversion, modification,
          sourceData, filteredData,
          earlierResult,
          file,
          currentPage, editingCell, editValue, tableData, panelSuccess

converterVars == <<mixData, materialsData, materialsLookup, result>>

extractorVars == <<fieldValue, extracted>>

moduleVars == <<finalColumns, calls>>

\* the state of the conversion page (pages/Home.tsx), the handleConvert call
\* that is waiting for its file reads and the AI modification that is
\* waiting for its answer
hostVars == <<activeTab, selectedDispatch, files, isProcessing, error, success,
              convertedData, originalConvertedData, showInlinePreview,
              conversion, modification>>

seriesVars == <<sourceData, filteredData>>

versionVars == <<earlierResult>>

earlierHostVars == <<file>>

previewVars == <<currentPage, editingCell, editValue, tableData, panelSuccess>>

vars == <<converterVars, pc, extractorVars, moduleVars, hostVars, seriesVars, versionVars, earlierHostVars, previewVars>>

-----------------------------------------------------------------------------
(* JavaScript values *)

JsNull == [t |-> "null", v |-> ""]

JsUndefined == [t |-> "undefined", v |-> ""]

JsStr(s) == [t |-> "string", v |-> s]

JsNum(c) == [t |-> "number", v |-> c]

JsNaN == JsNum("NaN")

\* String(x)
ToStr(x) ==
    CASE x.t = "null" -> "null"
      [] x.t = "undefined" -> "undefined"
      [] OTHER -> x.v

\* the truthiness test of `x || y` and `if (x)`
Truthy(x) ==
    CASE x.t = "string" -> x.v # ""
      [] x.t = "number" -> x.v \notin {"0", "NaN"}
      [] OTHER -> FALSE

\* x || y
OrElse(x, y) == IF Truthy(x) THEN x ELSE y

\* row[j] of a JS array (0-based; a missing element reads undefined)
At(row, j) == IF j + 1 \in DOMAIN row THEN row[j + 1] ELSE JsUndefined

-----------------------------------------------------------------------------
(* Strings *)

Digits == {"0", "1", "2", "3", "4", "5", "6", "7", "8", "9"}

WhiteSpace == {" ", "\t", "\n", "\r"}

First(s) == SubSeq(s, 1, 1)

Rest(s) == SubSeq(s, 2, Len(s))

Last(s) == SubSeq(s, Len(s), Len(s))

Front(s) == SubSeq(s, 1, Len(s) - 1)

StartsWith(s, p) == Len(p) <= Len(s) /\ SubSeq(s, 1, Len(p)) = p

\* String.prototype.includes
Includes(s, sub) ==
    \E i \in 1..(Len(s) - Len(sub) + 1) : SubSeq(s, i, i + Len(sub) - 1) = sub

RECURSIVE TrimStart(_)
TrimStart(s) ==
    IF s # "" /\ First(s) \in WhiteSpace THEN TrimStart(Rest(s)) ELSE s

RECURSIVE TrimEnd(_)
TrimEnd(s) ==
    IF s # "" /\ Last(s) \in WhiteSpace THEN TrimEnd(Front(s)) ELSE s

\* String.prototype.trim
Trim(s) == TrimEnd(TrimStart(s))

\* the longest prefix of s made of characters of the set cs (a greedy \d* or \s*)
RECURSIVE Run(_, _)
Run(s, cs) ==
    IF s # "" /\ First(s) \in cs THEN First(s) \o Run(Rest(s), cs) ELSE ""

Drop(s, n) == SubSeq(s, n + 1, Len(s))

RECURSIVE StripLeadingZeros(_)
StripLeadingZeros(d) ==
    IF Len(d) > 1 /\ First(d) = "0" THEN StripLeadingZeros(Rest(d)) ELSE d

RECURSIVE StripTrailingZeros(_)
StripTrailingZeros(d) ==
    IF d # "" /\ Last(d) = "0" THEN StripTrailingZeros(Front(d)) ELSE d

\* the number with integer digits i and fraction digits f, as JS prints it
Canonical(neg, i, f) ==
    LET ip == StripLeadingZeros(IF i = "" THEN "0" ELSE i)
        fp == StripTrailingZeros(f)
        mag == IF fp = "" THEN ip ELSE ip \o "." \o fp
    IN  IF neg /\ mag # "0" THEN "-" \o mag ELSE mag

\* parseFloat of a string: leading white space, a sign, then the longest
\* prefix digits [. digits] or . digits; anything after it is ignored.
\* (Exponents and "Infinity" do not occur in the strings of this model.)
ParseFloatStr(s) ==
    LET t    == TrimStart(s)
        neg  == StartsWith(t, "-")
        u    == IF StartsWith(t, "-") \/ StartsWith(t, "+") THEN Rest(t) ELSE t
        ip   == Run(u, Digits)
        a    == Drop(u, Len(ip))
        fp   == IF StartsWith(a, ".") THEN Run(Rest(a), Digits) ELSE ""
    IN  IF ip = "" /\ fp = "" THEN JsNaN ELSE JsNum(Canonical(neg, ip, fp))

\* parseFloat(x) converts x to a string first
ParseFloat(x) == ParseFloatStr(ToStr(x))

\* n > 0 for a number n
Positive(n) == n.t = "number" /\ n.v \notin {"NaN", "0"} /\ ~StartsWith(n.v, "-")

-----------------------------------------------------------------------------
(* Configuration (lines 20-55) *)

\* the plant codes taken to be consecutive
PLANTS_Consecutive == <<"01", "02", "03", "04", "05">>

PLANTS == <<"01", "02", "03", "05", "06">>

AGG_COUNT == 6

CEM_COUNT == 4

ADM_COUNT == 8

FINAL_COLUMNS ==
    << "Plant Code", "Mix Name", "Description", "Short Description",
       "Item Category", "Strength Age (Default 28)", "Strength (MPA)",
       "Design Air Content (%)", "Min Air Content (%)", "Max Air Content (%)",
       "Design Slump (in)", "Min Slump (in)", "Max Slump (in)",
       "Max Batch Size", "Max Water Gallons", "Max W/C+P", "Max W/C",
       "Mix Class Names, separate with semicolon", "Mix Usage",
       "Dispatch Slump Range", "Dispatch", "Constituent Item Code",
       "Constituent Item Description", "Quantity", "Unit Name" >>

\* the header row as a row of cells
HeaderRow == [i \in DOMAIN FINAL_COLUMNS |-> JsStr(FINAL_COLUMNS[i])]

-----------------------------------------------------------------------------
(* Helper functions *)

UpperLetters == "ABCDEFGHIJKLMNOPQRSTUVWXYZ"

LowerLetters == "abcdefghijklmnopqrstuvwxyz"

LowerChar(c) ==
    IF \E i \in 1..Len(UpperLetters) : SubSeq(UpperLetters, i, i) = c
    THEN LET i == CHOOSE i \in 1..Len(UpperLetters) : SubSeq(UpperLetters, i, i) = c
         IN  SubSeq(LowerLetters, i, i)
    ELSE c

RECURSIVE ToLower(_)
ToLower(s) == IF s = "" THEN "" ELSE LowerChar(First(s)) \o ToLower(Rest(s))

\* /^(\d+\.?\d*)/ : the text of group 1, or "" when the regex does not match
StrengthMatch(s) ==
    LET ip == Run(s, Digits)
        a  == Drop(s, Len(ip))
    IN  IF ip = "" THEN ""
        ELSE IF StartsWith(a, ".") THEN ip \o "." \o Run(Rest(a), Digits)
        ELSE ip

\* the strength read with parseFloat instead of the anchored pattern
extractStrengthByParseFloat(name) ==
    IF name.t \in {"null", "undefined"} THEN JsStr("")
    ELSE LET num == ParseFloatStr(ToStr(name))
         IN  IF num # JsNaN THEN num ELSE JsStr("")

extractStrength(name) ==
    IF name.t \in {"null", "undefined"} THEN JsStr("")
    ELSE LET m == StrengthMatch(ToStr(name))
         IN  IF m # "" THEN ParseFloatStr(m) ELSE JsStr("")

\* /'(\d+)'mm/ tried at position i of s: the digits of group 1, or ""
QuotedMmAt(s, i) ==
    LET a == Drop(s, i - 1)
        d == IF StartsWith(a, "'") THEN Run(Rest(a), Digits) ELSE ""
    IN  IF d # "" /\ StartsWith(Drop(a, 1 + Len(d)), "'mm") THEN d ELSE ""

\* /Slump\s+(\d+)mm/i tried at position i of s: the digits of group 1, or ""
SlumpMmAt(s, i) ==
    LET a  == Drop(s, i - 1)
        ok == Len(a) >= 5 /\ ToLower(SubSeq(a, 1, 5)) = "slump"
        b  == Drop(a, 5)
        ws == Run(b, WhiteSpace)
        c  == Drop(b, Len(ws))
        d  == Run(c, Digits)
        e  == Drop(c, Len(d))
    IN  IF ok /\ ws # "" /\ d # "" /\ Len(e) >= 2 /\ ToLower(SubSeq(e, 1, 2)) = "mm"
        THEN d ELSE ""

\* the leftmost match of a pattern tried position by position
FirstMatch(s, MatchAt(_, _)) ==
    IF \E i \in 1..Len(s) : MatchAt(s, i) # ""
    THEN MatchAt(s, CHOOSE i \in 1..Len(s) :
                        MatchAt(s, i) # "" /\ \A j \in 1..(i - 1) : MatchAt(s, j) = "")
    ELSE ""

\* the ladder with the number parse tried first
extractSlumpNumberFirst(slumpValue) ==
    IF slumpValue.t \in {"null", "undefined"} THEN JsStr("")
    ELSE LET slumpStr == ToStr(slumpValue)
             match1   == FirstMatch(slumpStr, QuotedMmAt)
             match2   == FirstMatch(slumpStr, SlumpMmAt)
             num      == ParseFloatStr(slumpStr)
         IN  IF num # JsNaN THEN num
             ELSE IF match1 # "" THEN ParseFloatStr(match1)
             ELSE IF match2 # "" THEN ParseFloatStr(match2)
             ELSE JsStr("")

extractSlump(slumpValue) ==
    IF slumpValue.t \in {"null", "undefined"} THEN JsStr("")
    ELSE LET slumpStr == ToStr(slumpValue)
             match1   == FirstMatch(slumpStr, QuotedMmAt)
             match2   == FirstMatch(slumpStr, SlumpMmAt)
             num      == ParseFloatStr(slumpStr)
         IN  IF match1 # "" THEN ParseFloatStr(match1)
             ELSE IF match2 # "" THEN ParseFloatStr(match2)
             ELSE IF num # JsNaN THEN num
             ELSE JsStr("")

\* the mapping without its Water case
getUnitWithoutWater(matType) ==
    IF matType = "Aggregate" \/ matType = "Cement" THEN "kg/m^3"
    ELSE IF matType = "Admixture" THEN "mL/100kg CM"
    ELSE ""

getUnitForMaterialType(matType) ==
    IF matType = "Aggregate" \/ matType = "Cement" THEN "kg/m^3"
    ELSE IF matType = "Admixture" THEN "mL/100kg CM"
    ELSE IF matType = "Water" THEN "L"
    ELSE ""

\* an object is a function from its own property names to values
hasOwnProperty(row, col) == col \in DOMAIN row

safeGet(row, col) == IF hasOwnProperty(row, col) THEN row[col] ELSE JsStr("")

isEmptyValue(val) ==
    \/ val.t = "null"
    \/ val.t = "undefined"
    \/ val = JsStr("")
    \/ val = JsNaN

isZeroOrEmpty(val) == isEmptyValue(val) \/ val = JsNum("0") \/ val = JsStr("0")

-----------------------------------------------------------------------------
(* The materials lookup.  A Map is the sequence of its entries in          *)
(* insertion order.                                                        *)

NoMaterials == [present |-> FALSE, rows |-> << >>]

Materials(rows) == [present |-> TRUE, rows |-> rows]

EmptyMap == << >>

MapHas(map, key) == \E i \in DOMAIN map : map[i].key = key

MapGet(map, key) == map[CHOOSE i \in DOMAIN map : map[i].key = key].value

MapSet(map, key, value) ==
    IF MapHas(map, key)
    THEN [i \in DOMAIN map |->
            IF map[i].key = key THEN [key |-> key, value |-> value] ELSE map[i]]
    ELSE Append(map, [key |-> key, value |-> value])

\* Array.prototype.findIndex: the 0-based index of the first element that
\* satisfies P, or -1
FindIndex(arr, P(_)) ==
    IF \E i \in DOMAIN arr : P(arr[i])
    THEN (CHOOSE i \in DOMAIN arr : P(arr[i]) /\ \A j \in 1..(i - 1) : ~P(arr[j])) - 1
    ELSE -1

\* a header test that does not ask for "Required"
IsMaterialTypeHeaderLoose(h) == Includes(ToStr(h), "Material Type")

IsMaterialTypeHeader(h) ==
    Includes(ToStr(h), "Material Type") /\ Includes(ToStr(h), "Required")

IsProductionCodeHeader(h) == Includes(ToStr(h), "Production Item Code")

\* a loop turn that stores without asking lookup.has: the last row wins
LookupStepLastWins(lookup, row, materialTypeIndex, productionCodeIndex) ==
    LET materialType   == At(row, materialTypeIndex)
        productionCode == At(row, productionCodeIndex)
    IN  IF Truthy(materialType) /\ Truthy(productionCode)
        THEN MapSet(lookup, Trim(ToStr(materialType)), Trim(ToStr(productionCode)))
        ELSE lookup

\* one turn of the loop of lines 177-190 on data row `row`
LookupStep(lookup, row, materialTypeIndex, productionCodeIndex) ==
    LET materialType   == At(row, materialTypeIndex)
        productionCode == At(row, productionCodeIndex)
        matTypeStr     == Trim(ToStr(materialType))
        prodCodeStr    == Trim(ToStr(productionCode))
    IN  IF Truthy(materialType) /\ Truthy(productionCode)
        THEN IF ~MapHas(lookup, matTypeStr)
             THEN MapSet(lookup, matTypeStr, prodCodeStr)
             ELSE lookup
        ELSE lookup

RECURSIVE LookupLoop(_, _, _, _, _)
LookupLoop(lookup, rows, i, materialTypeIndex, productionCodeIndex) ==
    IF i > Len(rows) THEN lookup
    ELSE LookupLoop(LookupStep(lookup, rows[i], materialTypeIndex, productionCodeIndex),
                    rows, i + 1, materialTypeIndex, productionCodeIndex)

createMaterialsLookup(materials) ==
    IF ~materials.present \/ Len(materials.rows) = 0 THEN EmptyMap
    ELSE LET headers             == materials.rows[1]
             materialTypeIndex   == FindIndex(headers, IsMaterialTypeHeader)
             productionCodeIndex == FindIndex(headers, IsProductionCodeHeader)
         IN  IF materialTypeIndex = -1 \/ productionCodeIndex = -1 THEN EmptyMap
             ELSE LookupLoop(EmptyMap, materials.rows, 2,
                             materialTypeIndex, productionCodeIndex)

-----------------------------------------------------------------------------
(* convertMPAQMixes *)

\* lines 225-231: the object of a data row, obj[header] = row[index] for the
\* header cells from index i on; a later cell of the same name overwrites
\* an earlier one
RECURSIVE ObjectFrom(_, _, _)
ObjectFrom(headers, row, i) ==
    IF i >= Len(headers) THEN << >>
    ELSE ObjectFrom(headers, row, i + 1) @@ (ToStr(At(headers, i)) :> At(row, i))

ToObject(headers, row) == ObjectFrom(headers, row, 0)

\* mixData.slice(1).map(...)
RECURSIVE ObjectsFrom(_, _)
ObjectsFrom(mix, i) ==
    IF i > Len(mix) THEN << >>
    ELSE <<ToObject(mix[1], mix[i])>> \o ObjectsFrom(mix, i + 1)

DataObjects(mix) == ObjectsFrom(mix, 2)

\* a filter that forgets parseFloat(waterTarget) > 0
IsValidMixNotEmpty(row) == ~isZeroOrEmpty(safeGet(row, "WaterTarget"))

\* lines 236-239: the filter predicate
IsValidMix(row) ==
    LET waterTarget == safeGet(row, "WaterTarget")
    IN  ~isZeroOrEmpty(waterTarget) /\ Positive(ParseFloat(waterTarget))

\* the indices (into data) of the records the filter keeps, in order
RECURSIVE ValidIndices(_, _)
ValidIndices(data, i) ==
    IF i > Len(data) THEN << >>
    ELSE IF IsValidMix(data[i]) THEN <<i>> \o ValidIndices(data, i + 1)
    ELSE ValidIndices(data, i + 1)

\* lines 248-261: [`Agg${i}Id`, `Agg${i}Name`, `Agg${i}Target`] for i = 1..count
SlotCols(prefix, count) ==
    [i \in 1..count |-> << prefix \o ToString(i) \o "Id",
                           prefix \o ToString(i) \o "Name",
                           prefix \o ToString(i) \o "Target" >>]

\* a scanning loop that skips a slot only for an empty target, not for 0
ScanBlockKeepingZero(row, cols, matType) ==
    LET slot(i) == [matType   |-> matType,
                    matId     |-> safeGet(row, cols[i][1]),
                    matName   |-> safeGet(row, cols[i][2]),
                    matTarget |-> safeGet(row, cols[i][3])]
        Included(c) == ~isEmptyValue(c.matId) /\ ~isEmptyValue(c.matTarget)
    IN  SelectSeq([i \in DOMAIN cols |-> slot(i)], Included)

\* one of the three scanning loops of lines 305-332
ScanBlock(row, cols, matType) ==
    LET slot(i) == [matType   |-> matType,
                    matId     |-> safeGet(row, cols[i][1]),
                    matName   |-> safeGet(row, cols[i][2]),
                    matTarget |-> safeGet(row, cols[i][3])]
        Included(c) == ~isEmptyValue(c.matId) /\ ~isZeroOrEmpty(c.matTarget)
    IN  SelectSeq([i \in DOMAIN cols |-> slot(i)], Included)

\* Water never added
WaterConstituentNever(row) == << >>

\* lines 334-337
WaterConstituent(row) ==
    LET waterTarget == safeGet(row, "WaterTarget")
    IN  IF ~isZeroOrEmpty(waterTarget)
        THEN << [matType |-> "Water", matId |-> JsStr("WATER"),
                 matName |-> JsStr("Water"), matTarget |-> waterTarget] >>
        ELSE << >>

\* lines 301-337
Constituents(row) ==
    ScanBlock(row, SlotCols("Agg", AGG_COUNT), "Aggregate")
    \o ScanBlock(row, SlotCols("Cem", CEM_COUNT), "Cement")
    \o ScanBlock(row, SlotCols("Adm", ADM_COUNT), "Admixture")
    \o WaterConstituent(row)

\* a miss that leaves the code blank
ProductionCodeBlankOnMiss(c, lookup) ==
    LET matNameStr == Trim(ToStr(OrElse(c.matName, JsStr(""))))
    IN  IF matNameStr # "" /\ MapHas(lookup, matNameStr)
        THEN JsStr(MapGet(lookup, matNameStr))
        ELSE JsStr("")

\* a lookup by the name as it stands in the sheet, not trimmed
ProductionCodeUntrimmed(c, lookup) ==
    LET matNameStr == ToStr(OrElse(c.matName, JsStr("")))
    IN  IF matNameStr # "" /\ MapHas(lookup, matNameStr)
        THEN JsStr(MapGet(lookup, matNameStr))
        ELSE c.matId

\* lines 344-354
ProductionCode(c, lookup) ==
    LET matNameStr == Trim(ToStr(OrElse(c.matName, JsStr(""))))
    IN  IF matNameStr # "" /\ MapHas(lookup, matNameStr)
        THEN JsStr(MapGet(lookup, matNameStr))
        ELSE c.matId

\* lines 277-299: the cells that are the same for all rows of a mix
BaseData(row) ==
    LET mixId       == safeGet(row, "MixId")
        nameVal     == safeGet(row, "Name")
        externalId  == safeGet(row, "ExternalId")
        airFactor   == safeGet(row, "AirFactor")
        slumpVal    == safeGet(row, "Slump")
        waterTarget == safeGet(row, "WaterTarget")
    IN  [mixName          |-> mixId,
         description      |-> OrElse(nameVal, JsStr("")),
         shortDescription |-> mixId,
         itemCategory     |-> OrElse(externalId, JsStr("")),
         strengthAge      |-> JsNum("28"),
         strengthMpa      |-> extractStrength(nameVal),
         airContent       |-> OrElse(airFactor, JsStr("")),
         slump            |-> extractSlump(slumpVal),
         maxWater         |-> OrElse(waterTarget, JsStr(""))]

\* a row with one of its empty cells left out: the cells after it shift left
OutRowMisaligned(plant, baseData, c, lookup) ==
    LET e == JsStr("")
    IN  << JsStr(plant), baseData.mixName, baseData.description,
           baseData.shortDescription, baseData.itemCategory, baseData.strengthAge,
           baseData.strengthMpa, baseData.airContent,
           e,
           baseData.slump,
           e, e, e,
           baseData.maxWater,
           e, e, e, e, e, e,
           ProductionCode(c, lookup),
           OrElse(c.matName, e),
           OrElse(c.matTarget, e),
           JsStr(getUnitForMaterialType(c.matType)) >>

\* lines 342-382
OutRow(plant, baseData, c, lookup) ==
    LET e == JsStr("")
    IN  << JsStr(plant),
           baseData.mixName,
           baseData.description,
           baseData.shortDescription,
           baseData.itemCategory,
           baseData.strengthAge,
           baseData.strengthMpa,
           baseData.airContent,
           e, e,
           baseData.slump,
           e, e, e,
           baseData.maxWater,
           e, e, e, e, e, e,
           ProductionCode(c, lookup),
           OrElse(c.matName, e),
           OrElse(c.matTarget, e),
           JsStr(getUnitForMaterialType(c.matType)) >>

RECURSIVE Concat(_)
Concat(ss) == IF ss = << >> THEN << >> ELSE Head(ss) \o Concat(Tail(ss))

\* the two loops swapped: constituents outside, plants inside
EmitMixConstituentOuter(src, row, lookup) ==
    LET baseData     == BaseData(row)
        constituents == Constituents(row)
        ForConstituent(k) == [p \in DOMAIN PLANTS |->
                                [src |-> src, plant |-> p, cons |-> k,
                                 row |-> OutRow(PLANTS[p], baseData, constituents[k], lookup)]]
    IN  Concat([k \in DOMAIN constituents |-> ForConstituent(k)])

\* lines 340-385: what the two nested loops push for one valid mix; src is
\* the index of the mix among the data records, kept beside each row
EmitMix(src, row, lookup) ==
    LET baseData     == BaseData(row)
        constituents == Constituents(row)
        ForPlant(p) == [k \in DOMAIN constituents |->
                          [src |-> src, plant |-> p, cons |-> k,
                           row |-> OutRow(PLANTS[p], baseData, constituents[k], lookup)]]
    IN  Concat([p \in DOMAIN PLANTS |-> ForPlant(p)])

\* lines 274-390
EmitAll(data, valid, lookup) ==
    Concat([k \in DOMAIN valid |-> EmitMix(valid[k], data[valid[k]], lookup)])

Threw(msg) == [threw |-> TRUE, error |-> msg, rows |-> << >>, trace |-> << >>]

Returned(emitted) ==
    [threw |-> FALSE, error |-> "",
     rows  |-> <<HeaderRow>> \o [i \in DOMAIN emitted |-> emitted[i].row],
     trace |-> [i \in DOMAIN emitted |->
                  <<emitted[i].src, emitted[i].plant, emitted[i].cons>>]]

ErrEmpty == "Mix data is empty"

ErrNoValid == "No valid mixes found with WaterTarget > 0"

ErrColumns == "Input file must contain 'MixId' and 'Name' columns."

\* the conversion without the check of lines 216-218
ConvertWithoutEmptyCheck(mix, materialsLookupBuilt) ==
    LET data  == DataObjects(mix)
        valid == ValidIndices(data, 1)
    IN  IF Len(valid) = 0 THEN Threw(ErrNoValid)
        ELSE IF \/ ~hasOwnProperty(data[valid[1]], "MixId")
                \/ ~hasOwnProperty(data[valid[1]], "Name")
             THEN Threw(ErrColumns)
        ELSE Returned(EmitAll(data, valid, materialsLookupBuilt))

\* the conversion without the check of lines 263-266
ConvertWithoutColumnCheck(mix, materialsLookupBuilt) ==
    IF Len(mix) = 0 THEN Threw(ErrEmpty)
    ELSE LET data  == DataObjects(mix)
             valid == ValidIndices(data, 1)
         IN  IF Len(valid) = 0 THEN Threw(ErrNoValid)
             ELSE Returned(EmitAll(data, valid, materialsLookupBuilt))

\* the conversion without the check of lines 243-245: validMixes[0] is then
\* undefined and the check of line 264 throws
ConvertWithoutValidCheck(mix, materialsLookupBuilt) ==
    IF Len(mix) = 0 THEN Threw(ErrEmpty)
    ELSE LET data  == DataObjects(mix)
             valid == ValidIndices(data, 1)
         IN  IF \/ Len(valid) = 0
                \/ ~hasOwnProperty(data[valid[1]], "MixId")
                \/ ~hasOwnProperty(data[valid[1]], "Name")
             THEN Threw(ErrColumns)
             ELSE Returned(EmitAll(data, valid, materialsLookupBuilt))

\* lines 203-394, given the lookup built at line 211
ConvertWith(mix, materialsLookupBuilt) ==
    IF Len(mix) = 0 THEN Threw(ErrEmpty)
    ELSE LET data  == DataObjects(mix)
             valid == ValidIndices(data, 1)
         IN  IF Len(valid) = 0 THEN Threw(ErrNoValid)
             ELSE IF \/ ~hasOwnProperty(data[valid[1]], "MixId")
                     \/ ~hasOwnProperty(data[valid[1]], "Name")
                  THEN Threw(ErrColumns)
             ELSE Returned(EmitAll(data, valid, materialsLookupBuilt))

convertMPAQMixes(mix, materials) ==
    ConvertWith(mix, IF materials.present THEN createMaterialsLookup(materials)
                     ELSE EmptyMap)

-----------------------------------------------------------------------------
(* The earlier convertMPAQMixes, kept beside the preview component: it has *)
(* the same helpers, checks and loops, builds no lookup and writes the raw *)
(* material id as the Constituent Item Code                                *)

\* the earlier output row with the material name as the item code
EarlierOutRowNamed(plant, baseData, c) ==
    LET e == JsStr("")
    IN  << JsStr(plant),
           baseData.mixName,
           baseData.description,
           baseData.shortDescription,
           baseData.itemCategory,
           baseData.strengthAge,
           baseData.strengthMpa,
           baseData.airContent,
           e, e,
           baseData.slump,
           e, e, e,
           baseData.maxWater,
           e, e, e, e, e, e,
           OrElse(c.matName, e),
           OrElse(c.matName, e),
           OrElse(c.matTarget, e),
           JsStr(getUnitForMaterialType(c.matType)) >>

\* lines 534-560
EarlierOutRow(plant, baseData, c) ==
    LET e == JsStr("")
    IN  << JsStr(plant),
           baseData.mixName,
           baseData.description,
           baseData.shortDescription,
           baseData.itemCategory,
           baseData.strengthAge,
           baseData.strengthMpa,
           baseData.airContent,
           e, e,
           baseData.slump,
           e, e, e,
           baseData.maxWater,
           e, e, e, e, e, e,
           c.matId,
           OrElse(c.matName, e),
           OrElse(c.matTarget, e),
           JsStr(getUnitForMaterialType(c.matType)) >>

\* lines 530-564: the two nested loops for one valid mix
EarlierEmitMix(src, row) ==
    LET baseData     == BaseData(row)
        constituents == Constituents(row)
        ForPlant(p) == [k \in DOMAIN constituents |->
                          [src |-> src, plant |-> p, cons |-> k,
                           row |-> EarlierOutRow(PLANTS[p], baseData, constituents[k])]]
    IN  Concat([p \in DOMAIN PLANTS |-> ForPlant(p)])

\* lines 466-567
EarlierEmitAll(data, valid) ==
    Concat([k \in DOMAIN valid |-> EarlierEmitMix(valid[k], data[valid[k]])])

\* lines 400-573; the materials argument is only logged
convertMPAQMixesEarlier(mix, materials) ==
    IF Len(mix) = 0 THEN Threw(ErrEmpty)
    ELSE LET data  == DataObjects(mix)
             valid == ValidIndices(data, 1)
         IN  IF Len(valid) = 0 THEN Threw(ErrNoValid)
             ELSE IF \/ ~hasOwnProperty(data[valid[1]], "MixId")
                     \/ ~hasOwnProperty(data[valid[1]], "Name")
                  THEN Threw(ErrColumns)
             ELSE Returned(EarlierEmitAll(data, valid))

-----------------------------------------------------------------------------
(* Inputs: the tables the conversions are run on *)

MaxMixRows == 2

MaxMatRows == 3

S(x) == JsStr(x)

U == JsUndefined

NoSlot == <<U, U, U>>

\* the columns of the widest mix sheet; the material blocks are laid out in
\* the sheet in the reverse of the order convertMPAQMixes scans them
MixColumns ==
    << "MixId", "Name", "WaterTarget", "Slump", "ExternalId", "AirFactor",
       "Adm1Id", "Adm1Name", "Adm1Target",
       "Cem1Id", "Cem1Name", "Cem1Target",
       "Agg2Id", "Agg2Name", "Agg2Target",
       "Agg1Id", "Agg1Name", "Agg1Target",
       "Adm8Id", "Adm8Name", "Adm8Target" >>

\* the sheets' header rows, as the columns of MixColumns they carry
MixHeaders ==
    { <<1, 2, 3, 4, 5, 6, 7, 8, 9, 10, 11, 12, 13, 14, 15, 16, 17, 18, 19, 20, 21>>,
      <<1, 2, 3, 4>>,
      <<2, 3, 10, 11, 12>>,
      <<1, 3, 16, 17, 18>>,
      <<1, 2, 16, 17, 18>> }

MixRecord(mixId, name, water, slump, ext, air, adm1, cem1, agg2, agg1, adm8) ==
    <<mixId, name, water, slump, ext, air>> \o adm1 \o cem1 \o agg2 \o agg1 \o adm8

\* a mix with five constituents and the WaterTarget cell w
FullMix(w) ==
    MixRecord(S("M1"), S("30 MPA"), w, S("Slump 90mm"), S("CAT"), S("5"),
              <<S("D1"), S("Fly Ash"), S("12")>>,
              <<S("C1"), S(" Cement "), JsNum("300")>>,
              <<S("A2"), S("Stone"), S("1000")>>,
              <<S("A1"), S("Sand"), S("800")>>,
              <<S("D8"), S("Retarder"), JsNum("0")>>)

\* slots that are skipped (no id, zero target), a numeric id, a missing
\* name, names that differ from "Sand" and "Fly Ash" in case or spacing
SparseMix ==
    MixRecord(S("M2"), S("Special Mix"), JsNum("165.5"), S("'80'mm"), U, JsNum("0"),
              <<S("D2"), S("sand"), S("3")>>,
              <<S("C9"), U, S("40")>>,
              <<S(""), S("Stone"), S("10")>>,
              <<JsNum("7"), S("Fly  Ash"), S("5")>>,
              <<S("D8"), S("Retarder"), S("0")>>)

WaterOnlyMix ==
    MixRecord(S("M3"), S("25 MPA Mix"), S("12abc"), S("80"), U, U,
              NoSlot, NoSlot, NoSlot, NoSlot, NoSlot)

\* WaterTarget cells the filter rejects
RejectedWater ==
    { JsNull, U, S(""), JsNaN, JsNum("0"), S("0"), S("-5"), S("abc") }

MixRecords ==
    {FullMix(S("180")), SparseMix, WaterOnlyMix} \cup {FullMix(w) : w \in RejectedWater}

SeqsUpTo(set, n) == UNION {[1..k -> set] : k \in 0..n}

\* the sheet with header h and the given records: each row carries the cells
\* of the header's columns
MixSheet(h, recs) ==
    << [j \in DOMAIN h |-> S(MixColumns[h[j]])] >>
    \o [i \in DOMAIN recs |-> [j \in DOMAIN h |-> recs[i][h[j]]]]

MixTables ==
    { << >> } \cup
    { MixSheet(h, recs) : h \in MixHeaders, recs \in SeqsUpTo(MixRecords, MaxMixRows) }

MatHeaderGood == <<S("Item"), S("Material Type (Required)"), S("Production Item Code")>>

\* headers createMaterialsLookup does not recognise
MatHeadersDegraded ==
    { <<S("Item"), S("Material Type"), S("Production Item Code")>>,
      <<S("Item"), S("Material Type (Required)"), S("Item Code")>>,
      <<S("Item"), S("material type (required)"), S("production item code")>> }

MatRowsA ==
    << <<S("1"), S("Sand"), S("AGG-001")>>,
       <<S("2"), S("Cement"), S("CEM-001")>>,
       <<S("3"), S(" Cement "), S("CEM-002")>>,
       <<S("4"), S("Fly Ash"), S(" ADM-001 ")>>,
       <<S("5"), S("Stone"), JsNum("0")>> >>

MatRowsB ==
    << <<S("1"), S("Cement"), S("")>>,
       <<S("2"), S("Cement"), S("CEM-002")>>,
       <<S("3"), S("Water"), S("H2O")>>,
       <<S("4"), S("CEMENT"), S("CEM-UP")>>,
       <<S("5"), S("Fly Ash"), S("ADM-002")>>,
       <<S("6"), S("  "), S("BLANK")>> >>

\* the materials arguments of the conversions
MaterialsInputs ==
    { NoMaterials, Materials(<< >>),
      Materials(<<MatHeaderGood>> \o MatRowsA),
      Materials(<<MatHeaderGood>> \o MatRowsB) }
    \cup { Materials(<<h>> \o MatRowsA) : h \in MatHeadersDegraded }

\* the data rows createMaterialsLookup is run on
MatRowPool ==
    { <<S("1"), S("Cement"), S("CEM-001")>>,
      <<S("2"), S(" Cement "), S("CEM-002")>>,
      <<S("3"), S("Cement"), S("")>>,
      <<S("4"), S("Cement"), JsNum("0")>>,
      <<S("5"), S("Sand"), S(" AGG-1 ")>>,
      <<S("6"), U, S("X")>>,
      <<S("7"), JsNum("0"), S("ZERO")>>,
      <<S("8"), S("cement"), JsNum("12")>> }

LookupInputs ==
    { NoMaterials } \cup
    { Materials(<<h>> \o rows) :
        h \in {MatHeaderGood} \cup MatHeadersDegraded,
        rows \in SeqsUpTo(MatRowPool, MaxMatRows) }

MaxDigits == 2

DigitPool == {"0", "5", "8"}

RECURSIVE DigitStrings(_)
DigitStrings(n) ==
    IF n = 0 THEN {""} ELSE {d \o c : d \in DigitStrings(n - 1), c \in DigitPool}

\* the digit runs the cell texts are made with
Numerals == UNION {DigitStrings(k) : k \in 1..MaxDigits}

Quoted(n) == "'" \o n \o "'mm"

\* texts of a Slump cell
SlumpTexts ==
    UNION { { Quoted(n), "Slump " \o Quoted(n), "(" \o Quoted(n) \o ")",
              "Slump " \o n \o "mm", "slump  " \o n \o "MM", "SLUMP\t" \o n \o "mm.",
              n, " " \o n \o " ", n \o " mm", n \o "mm", n \o "." \o n, n \o "abc",
              "Slump " \o n, "Slump" \o n \o "mm", "Slump " \o n \o " mm",
              "'" \o n \o "' mm", "'" \o n \o "mm", "-" \o n, "+" \o n, "." \o n,
              "mm " \o n, "abc" \o n } : n \in Numerals }
    \cup { "Slump " \o n \o "mm " \o Quoted(m) : n, m \in Numerals }
    \cup { m \o " Slump " \o n \o "mm" : n, m \in Numerals }
    \cup { m \o " " \o Quoted(n) : n, m \in Numerals }
    \cup { Quoted(n) \o " " \o Quoted(m) : n, m \in Numerals }
    \cup { "Slump '80'mm", "Slump 80mm", "Slump 90mm", "80", "no data", "", "  ", "mm",
           "''mm", "Slump mm", "Slump" }

\* texts of a Name cell
NameTexts ==
    UNION { { n \o " MPA Mix", n \o "MPA", n \o "." \o m \o " Mpa", n \o ".", n \o ". MPA",
              n \o "." \o m \o "." \o n, " " \o n \o " MPA", "Mix " \o n, "C" \o n \o "/" \o m,
              "-" \o n, "+" \o n, "." \o n \o " MPA", n \o "-" \o m } : n, m \in Numerals }
    \cup { "25 MPA Mix", "30 MPA", "0.4 Mpa Fill", "Special Mix", "", " ", "MPA" }

\* cells that hold no text
NonTextCells ==
    { JsNull, JsUndefined, JsNaN, JsNum("0.4"), JsNum("-5") }
    \cup { JsNum(Canonical(FALSE, n, "")) : n \in Numerals }

\* the cells the extractors are run on
ExtractInputs == {JsStr(t) : t \in SlumpTexts \cup NameTexts} \cup NonTextCells

MaxCalls == 3

\* the mix tables of repeated calls: five constituents, no row, no valid row
CallMixTables ==
    { MixSheet(<<1, 2, 3, 4, 5, 6, 7, 8, 9, 10, 11, 12, 13, 14, 15, 16, 17, 18, 19, 20, 21>>,
               <<FullMix(S("180"))>>),
      << >>,
      MixSheet(<<1, 2, 3, 4>>, <<FullMix(S("0"))>>) }

\* the materials arguments of repeated calls
CallMaterials ==
    { NoMaterials,
      Materials(<<MatHeaderGood>> \o MatRowsA),
      Materials(<<MatHeaderGood>> \o MatRowsB) }

\* what a caller writes into a cell
Edited == JsStr("EDITED")

\* the slot whose cells vary: the first and the last slot of each block and
\* the slot after the last, which no loop scans
ProbeSlots == {"Agg1", "Agg6", "Agg7", "Cem1", "Cem4", "Cem5", "Adm1", "Adm8", "Adm9"}

ProbeIds == { S("P1"), S(""), S(" "), U, JsNull, JsNaN, JsNum("0") }

ProbeNames == { S("Probe"), S(""), JsNull }

ProbeTargets ==
    { JsNull, U, S(""), JsNaN, JsNum("0"), S("0"),
      S("5"), JsNum("5"), S("0.0"), S(" 0"), S("00"), JsNum("-5"), S("abc") }

\* a sheet of one mix: three filled slots, laid out in the reverse of the
\* order they are scanned in, and the probed slot after them
SlotSheet(slot, id, name, target) ==
    << << S("MixId"), S("Name"), S("WaterTarget"),
          S("Adm2Id"), S("Adm2Name"), S("Adm2Target"),
          S("Cem2Id"), S("Cem2Name"), S("Cem2Target"),
          S("Agg2Id"), S("Agg2Name"), S("Agg2Target"),
          S(slot \o "Id"), S(slot \o "Name"), S(slot \o "Target") >>,
       << S("M1"), S("30 MPA"), S("180"),
          S("D2"), S("Plasticiser"), S("3"),
          S("C2"), S("Cement"), JsNum("300"),
          S("A2"), S("Stone"), S("1000"),
          id, name, target >> >>

SlotSheets ==
    { SlotSheet(slot, id, name, target) :
        slot \in ProbeSlots, id \in ProbeIds, name \in ProbeNames,
        target \in ProbeTargets }

\* the dispatch systems the page offers
DISPATCH_OPTIONS ==
    << "BCMI", "Command Cloud", "Command Series", "Integra", "Jonel", "MPAQ",
       "Simma", "SysDyne", "WMC" >>

\* the tabs of the page
Tabs == {"materials", "mixes", "mix-material"}

EndsWith(s, p) == Len(p) <= Len(s) /\ SubSeq(s, Len(s) - Len(p) + 1, Len(s)) = p

\* the filter of onDrop, on a file's name
HasValidExtension(name) ==
    \/ EndsWith(name, ".xlsx")
    \/ EndsWith(name, ".xls")
    \/ EndsWith(name, ".csv")

\* the files a drop brings
MaxDrop == 2

\* the files of the user, by name; a File object is held as its name
FileCatalog == {"mixes.csv", "materials.xlsx", "broken.xls", "MIXES.CSV"}

\* readFileAsArrayBuffer and the decoding of fileToArray reject for a file
\* that cannot be read
Readable(name) == name # "broken.xls"

\* fileToArray(file): the rows of the sheet it picks
fileToArray(name) ==
    IF name = "materials.xlsx" THEN <<MatHeaderGood>> \o MatRowsB
    ELSE MixSheet(<<1, 2, 3, 4>>, <<FullMix(S("180"))>>)

\* the lists of up to n different files
FileLists(n) ==
    UNION { { fs \in [1..k -> FileCatalog] :
                \A i, j \in 1..k : i # j => fs[i] # fs[j] } : k \in 0..n }

\* the file lists handleConvert can find in files: onDrop stores only
\* files that pass its filter
HeldFileLists ==
    { fs \in FileLists(MaxDrop) : \A i \in DOMAIN fs : HasValidExtension(fs[i]) }

\* the AI modifications of a workbook's table go no further than this
MaxEdits == 1

ErrUpload == "Please upload valid Excel or CSV files (.xlsx, .xls, .csv)"

ErrMixFiles == "Mix imports support up to 2 files (mix file + materials lookup for MPAQ)"

ErrMaxFiles == "Maximum 5 files allowed"

ErrTwoFiles == "MPAQ mix conversion requires 2 files: mix file and materials lookup file"

ErrNotImplemented(dispatch) ==
    "Mix conversion for " \o dispatch \o " is not yet implemented. Please use MPAQ."

ErrProcessing == "Error processing file(s). Please check the file format."

-----------------------------------------------------------------------------
(* The conversions as state machines *)

\* no extractor has been given a cell
ExtractorIdle == fieldValue = JsUndefined /\ extracted = JsUndefined

\* the module is loaded: FINAL_COLUMNS is the array of lines 29-55 and
\* useState(null) of a workbook
NoWorkbook == [present |-> FALSE, sheetName |-> "", rows |-> << >>, edits |-> 0]

\* no handleConvert call has been made
NoConversion ==
    [stage |-> "idle", activeTab |-> "", selectedDispatch |-> "", files |-> << >>,
     ran |-> "none"]

\* the AI panel is not waiting for an answer
NoModification == [stage |-> "idle", workbook |-> NoWorkbook]

\* the page as it is mounted: the useState initial values
PageMounted ==
    /\ activeTab = "materials"
    /\ selectedDispatch = ""
    /\ files = << >>
    /\ isProcessing = FALSE
    /\ error = JsNull
    /\ success = FALSE
    /\ convertedData = NoWorkbook
    /\ originalConvertedData = NoWorkbook
    /\ showInlinePreview = FALSE
    /\ conversion = NoConversion
    /\ modification = NoModification

\* processData has not been called
SeriesIdle == sourceData = << >> /\ filteredData = << >>

\* convertMPAQMixes has not been called
ModuleLoaded == finalColumns = HeaderRow /\ calls = << >>

NoResult == [threw |-> FALSE, error |-> "", rows |-> << >>, trace |-> << >>]

\* the earlier convertMPAQMixes has not been called
VersionsIdle == earlierResult = NoResult

\* useState<File | null>(null) of the earlier page: a File is held as its
\* name, null as the empty name
NoFile == ""

\* the earlier page holds no file
NoFileHeld == file = NoFile

\* useState<{ row, col } | null>(null) of PreviewSection: no cell is edited
NoCell == [row |-> -1, col |-> -1]

\* no PreviewSection is mounted; tableData is the component's state `data`
\* and panelSuccess the state `success` of the AI panel inside it
PreviewUnmounted ==
    /\ currentPage = 1
    /\ editingCell = NoCell
    /\ editValue = ""
    /\ tableData = << >>
    /\ panelSuccess = FALSE

\* a mix sheet and a materials argument are given; nothing has run
Init ==
    /\ mixData \in MixTables
    /\ materialsData \in MaterialsInputs
    /\ materialsLookup = EmptyMap
    /\ result = NoResult
    /\ pc = "input"
    /\ ExtractorIdle
    /\ ModuleLoaded
    /\ PageMounted
    /\ PreviewUnmounted
    /\ NoFileHeld
    /\ VersionsIdle
    /\ SeriesIdle

\* one call convertMPAQMixes(mixData, materialsData)
Convert ==
    /\ pc = "input"
    /\ materialsLookup' = (IF materialsData.present
                           THEN createMaterialsLookup(materialsData) ELSE EmptyMap)
    /\ result' = ConvertWith(mixData, materialsLookup')
    /\ pc' = "converted"
    /\ UNCHANGED <<mixData, materialsData, extractorVars, moduleVars, hostVars,
                   seriesVars, versionVars, earlierHostVars, previewVars>>

Next == Convert

Spec == Init /\ [][Next]_vars

\* one call of the earlier convertMPAQMixes on the same two arguments
ConvertEarlier ==
    /\ pc = "converted"
    /\ earlierResult' = convertMPAQMixesEarlier(mixData, materialsData)
    /\ pc' = "compared"
    /\ UNCHANGED <<converterVars, extractorVars, moduleVars, hostVars, seriesVars,
                   earlierHostVars, previewVars>>

NextVersions == Convert \/ ConvertEarlier

\* both versions are run, one after the other, on the same arguments
SpecVersions == Init /\ [][NextVersions]_vars

\* a materials table is given; nothing has run
InitLookup ==
    /\ mixData = << >>
    /\ materialsData \in LookupInputs
    /\ materialsLookup = EmptyMap
    /\ result = NoResult
    /\ pc = "input"
    /\ ExtractorIdle
    /\ ModuleLoaded
    /\ PageMounted
    /\ PreviewUnmounted
    /\ NoFileHeld
    /\ VersionsIdle
    /\ SeriesIdle

\* one call createMaterialsLookup(materialsData)
BuildLookup ==
    /\ pc = "input"
    /\ materialsLookup' = createMaterialsLookup(materialsData)
    /\ pc' = "built"
    /\ UNCHANGED <<mixData, materialsData, result, extractorVars, moduleVars, hostVars,
                   seriesVars, versionVars, earlierHostVars, previewVars>>

NextLookup == BuildLookup

SpecLookup == InitLookup /\ [][NextLookup]_vars

\* a sheet of one mix with a probed slot is given, and no materials table
InitSlots ==
    /\ mixData \in SlotSheets
    /\ materialsData = NoMaterials
    /\ materialsLookup = EmptyMap
    /\ result = NoResult
    /\ pc = "input"
    /\ ExtractorIdle
    /\ ModuleLoaded
    /\ PageMounted
    /\ PreviewUnmounted
    /\ NoFileHeld
    /\ VersionsIdle
    /\ SeriesIdle

\* convertMPAQMixes run on the sheets with a probed slot
SpecSlots == InitSlots /\ [][Next]_vars

\* no table is being converted
ConverterIdle ==
    /\ mixData = << >>
    /\ materialsData = NoMaterials
    /\ materialsLookup = EmptyMap
    /\ result = NoResult

\* a cell is given; no extractor has run
InitExtract ==
    /\ ConverterIdle
    /\ pc = "input"
    /\ fieldValue \in ExtractInputs
    /\ extracted = JsUndefined
    /\ ModuleLoaded
    /\ PageMounted
    /\ PreviewUnmounted
    /\ NoFileHeld
    /\ VersionsIdle
    /\ SeriesIdle

\* one call extractStrength(fieldValue)
ExtractStrength ==
    /\ pc = "input"
    /\ extracted' = extractStrength(fieldValue)
    /\ pc' = "strength"
    /\ UNCHANGED <<converterVars, fieldValue, moduleVars, hostVars, seriesVars,
                   versionVars, earlierHostVars, previewVars>>

\* one call extractSlump(fieldValue)
ExtractSlump ==
    /\ pc = "input"
    /\ extracted' = extractSlump(fieldValue)
    /\ pc' = "slump"
    /\ UNCHANGED <<converterVars, fieldValue, moduleVars, hostVars, seriesVars,
                   versionVars, earlierHostVars, previewVars>>

NextExtract == ExtractStrength \/ ExtractSlump

SpecExtract == InitExtract /\ [][NextExtract]_vars

\* createMaterialsLookup filling a Map that is not new
createMaterialsLookupInto(lookup, materials) ==
    IF ~materials.present \/ Len(materials.rows) = 0 THEN lookup
    ELSE LET headers             == materials.rows[1]
             materialTypeIndex   == FindIndex(headers, IsMaterialTypeHeader)
             productionCodeIndex == FindIndex(headers, IsProductionCodeHeader)
         IN  IF materialTypeIndex = -1 \/ productionCodeIndex = -1 THEN lookup
             ELSE LookupLoop(lookup, materials.rows, 2,
                             materialTypeIndex, productionCodeIndex)

\* the record of a call: its arguments, what it returned (the rows as they
\* were at the return) and the data rows of the returned table as the
\* caller holds them now; row 0 of every returned table is the one
\* FINAL_COLUMNS array (line 271 pushes the array itself), whose cells
\* are finalColumns
CallRecord(mix, materials, res) ==
    [mixData |-> mix, materialsData |-> materials, returned |-> res,
     table |-> IF res.threw THEN << >> ELSE Tail(res.rows)]

\* the module has been loaded; nothing has been called
InitModule ==
    /\ ConverterIdle
    /\ ExtractorIdle
    /\ ModuleLoaded
    /\ PageMounted
    /\ PreviewUnmounted
    /\ NoFileHeld
    /\ VersionsIdle
    /\ SeriesIdle
    /\ pc = "loaded"

\* a call with a lookup that lives on between the calls
InvokeKeepingLookup ==
    /\ Len(calls) < MaxCalls
    /\ \E mix \in CallMixTables, materials \in CallMaterials :
          /\ mixData' = mix
          /\ materialsData' = materials
          /\ materialsLookup' = createMaterialsLookupInto(materialsLookup, materials)
          /\ LET r == ConvertWith(mix, materialsLookup')
             IN  result' = IF r.threw THEN r ELSE [r EXCEPT !.rows[1] = finalColumns]
          /\ calls' = Append(calls, CallRecord(mix, materials, result'))
    /\ UNCHANGED <<pc, extractorVars, finalColumns, hostVars, seriesVars, versionVars,
                   earlierHostVars, previewVars>>

\* one call convertMPAQMixes(mix, materials) in a module that has served
\* the earlier calls: the lookup is new (line 211, 150), outRows is new
\* (line 268) and its first row is FINAL_COLUMNS itself (line 271)
Invoke ==
    /\ Len(calls) < MaxCalls
    /\ \E mix \in CallMixTables, materials \in CallMaterials :
          /\ mixData' = mix
          /\ materialsData' = materials
          /\ materialsLookup' = (IF materials.present
                                 THEN createMaterialsLookup(materials) ELSE EmptyMap)
          /\ LET r == ConvertWith(mix, materialsLookup')
             IN  result' = IF r.threw THEN r ELSE [r EXCEPT !.rows[1] = finalColumns]
          /\ calls' = Append(calls, CallRecord(mix, materials, result'))
    /\ UNCHANGED <<pc, extractorVars, finalColumns, hostVars, seriesVars, versionVars,
                   earlierHostVars, previewVars>>

\* the caller writes a cell of the header row of a table it was returned:
\* table[0][0] = "EDITED"
ModifyHeaderCell ==
    /\ \E i \in DOMAIN calls : ~calls[i].returned.threw
    /\ finalColumns[1] # Edited
    /\ finalColumns' = [finalColumns EXCEPT ![1] = Edited]
    /\ UNCHANGED <<converterVars, pc, extractorVars, calls, hostVars, seriesVars,
                   versionVars, earlierHostVars, previewVars>>

\* the caller writes a cell of a data row of a table it was returned:
\* table[1][21] = "EDITED"
ModifyDataCell ==
    /\ \E i \in DOMAIN calls :
          /\ Len(calls[i].table) >= 1
          /\ calls[i].table[1][22] # Edited
          /\ calls' = [calls EXCEPT ![i].table[1][22] = Edited]
    /\ UNCHANGED <<converterVars, pc, extractorVars, finalColumns, hostVars,
                   seriesVars, versionVars, earlierHostVars, previewVars>>

NextInvocations == Invoke

\* convertMPAQMixes called again and again
SpecInvocations == InitModule /\ [][NextInvocations]_vars

NextCaller == Invoke \/ ModifyHeaderCell \/ ModifyDataCell

\* convertMPAQMixes called again and again by a caller that writes into
\* the tables it was returned
SpecCaller == InitModule /\ [][NextCaller]_vars

\* lines 216-219: the workbook made of the converted table
Workbook(tab, rows) ==
    [present |-> TRUE,
     sheetName |-> IF tab = "mixes" THEN "Mix Import" ELSE "Material Import",
     rows |-> rows, edits |-> 0]

\* the table the materials converters return
MaterialsTable == << <<S("Item Code"), S("Description")>> >>

ErrMaterials == "Materials data is empty"

\* converters/materials/MPAQ: a call returns a table or throws
MaterialsOutcomes ==
    { [threw |-> FALSE, error |-> "", rows |-> MaterialsTable, trace |-> << >>],
      Threw(ErrMaterials) }

AllReadable(fs) == \A i \in DOMAIN fs : Readable(fs[i])

\* lines 140-213: what the try block comes to once its file reads are
\* settled, for the tab, dispatch system and files the call closed over:
\* the converter that ran and what it returned or what was thrown
ConvertOutcomes(tab, dispatch, fs) ==
    IF tab = "mixes"
    THEN IF dispatch = "MPAQ"
         THEN IF ~Readable(fs[1]) \/ ~Readable(fs[2])
              THEN { [ran |-> "none", res |-> Threw(ErrProcessing)] }
              ELSE { [ran |-> "convertMPAQMixes",
                      res |-> convertMPAQMixes(fileToArray(fs[1]),
                                               Materials(fileToArray(fs[2])))] }
         ELSE IF ~Readable(fs[1])
              THEN { [ran |-> "none", res |-> Threw(ErrProcessing)] }
              ELSE { [ran |-> "none", res |-> Threw(ErrNotImplemented(dispatch))] }
    ELSE IF ~AllReadable(fs)
         THEN { [ran |-> "none", res |-> Threw(ErrProcessing)] }
         ELSE IF Len(fs) = 1
              THEN { [ran |-> "convertMPAQMaterials", res |-> r] :
                       r \in MaterialsOutcomes }
              ELSE { [ran |-> "convertMPAQMaterialsMultiSheet", res |-> r] :
                       r \in MaterialsOutcomes }

\* the outcome of a handleConvert call, kept for the properties
Settled(stage, tab, dispatch, ran) ==
    [stage |-> stage, activeTab |-> tab, selectedDispatch |-> dispatch,
     files |-> << >>, ran |-> ran]

\* handleConvert up to its first await (lines 133-150, 216-230): the call
\* returns at once without files or dispatch system; MPAQ mixes with fewer
\* than 2 files throw before any read and the catch stores the message; a
\* tab that is neither mixes nor materials reads nothing and stores the
\* workbook of the empty table; otherwise the call waits for its reads
HandleConvertStart ==
    /\ Len(files) # 0
    /\ selectedDispatch # ""
    /\ conversion.stage # "reading"
    /\ IF activeTab = "mixes" /\ selectedDispatch = "MPAQ" /\ Len(files) < 2
       THEN /\ isProcessing' = FALSE
            /\ error' = JsStr(ErrTwoFiles)
            /\ conversion' = Settled("failed", activeTab, selectedDispatch, "none")
            /\ UNCHANGED <<success, convertedData, originalConvertedData>>
       ELSE IF activeTab \notin {"mixes", "materials"}
       THEN /\ isProcessing' = FALSE
            /\ error' = JsNull
            /\ convertedData' = Workbook(activeTab, << >>)
            /\ originalConvertedData' = Workbook(activeTab, << >>)
            /\ success' = TRUE
            /\ conversion' = Settled("succeeded", activeTab, selectedDispatch, "none")
       ELSE /\ isProcessing' = TRUE
            /\ error' = JsNull
            /\ conversion' = [stage |-> "reading", activeTab |-> activeTab,
                              selectedDispatch |-> selectedDispatch,
                              files |-> files, ran |-> "none"]
            /\ UNCHANGED <<success, convertedData, originalConvertedData>>
    /\ UNCHANGED <<activeTab, selectedDispatch, files, showInlinePreview, modification,
                   converterVars, pc, extractorVars, moduleVars, seriesVars,
                   versionVars, earlierHostVars, previewVars>>

\* handleConvert from its awaits on (lines 150-230): the reads settle, the
\* converter runs on what the call closed over, and the state setters
\* write into the page as it is by then
HandleConvertFinish ==
    /\ conversion.stage = "reading"
    /\ \E o \in ConvertOutcomes(conversion.activeTab, conversion.selectedDispatch,
                                conversion.files) :
          /\ isProcessing' = FALSE
          /\ IF o.res.threw
             THEN /\ error' = JsStr(o.res.error)
                  /\ conversion' = Settled("failed", conversion.activeTab,
                                           conversion.selectedDispatch, o.ran)
                  /\ UNCHANGED <<success, convertedData, originalConvertedData>>
             ELSE /\ convertedData' = Workbook(conversion.activeTab, o.res.rows)
                  /\ originalConvertedData' = Workbook(conversion.activeTab, o.res.rows)
                  /\ success' = TRUE
                  /\ conversion' = Settled("succeeded", conversion.activeTab,
                                           conversion.selectedDispatch, o.ran)
                  /\ UNCHANGED error
    /\ UNCHANGED <<activeTab, selectedDispatch, files, showInlinePreview, modification,
                   converterVars, pc, extractorVars, moduleVars, seriesVars,
                   versionVars, earlierHostVars, previewVars>>

\* handleConvert is about to be called: the page holds a tab, a dispatch
\* system and files
InitHandler ==
    /\ ConverterIdle
    /\ ExtractorIdle
    /\ ModuleLoaded
    /\ pc = "page"
    /\ activeTab \in Tabs
    /\ selectedDispatch \in {""} \cup {DISPATCH_OPTIONS[i] : i \in DOMAIN DISPATCH_OPTIONS}
    /\ files \in HeldFileLists
    /\ isProcessing = FALSE
    /\ error = JsNull
    /\ success = FALSE
    /\ convertedData = NoWorkbook
    /\ originalConvertedData = NoWorkbook
    /\ showInlinePreview = FALSE
    /\ conversion = NoConversion
    /\ modification = NoModification
    /\ NoFileHeld
    /\ PreviewUnmounted
    /\ VersionsIdle
    /\ SeriesIdle

NextHandler == HandleConvertStart \/ HandleConvertFinish

\* handleConvert called on a page that holds any tab, dispatch system and
\* files
SpecHandler == InitHandler /\ [][NextHandler]_vars

\* the page has been mounted; nothing has been done
InitHost ==
    /\ ConverterIdle
    /\ ExtractorIdle
    /\ ModuleLoaded
    /\ PageMounted
    /\ PreviewUnmounted
    /\ NoFileHeld
    /\ VersionsIdle
    /\ SeriesIdle
    /\ pc = "page"

\* the controls of the upload card exist in these tabs
HasUploadCard == activeTab \in {"materials", "mixes"}

\* Tabs onValueChange (lines 273-280)
SwitchTab ==
    /\ \E val \in Tabs \ {activeTab} : activeTab' = val
    /\ files' = << >>
    /\ error' = JsNull
    /\ success' = FALSE
    /\ convertedData' = NoWorkbook
    /\ showInlinePreview' = FALSE
    /\ UNCHANGED <<selectedDispatch, isProcessing, originalConvertedData, conversion,
                   modification, converterVars, pc, extractorVars, moduleVars,
                   seriesVars, versionVars, earlierHostVars, previewVars>>

\* Select onValueChange (lines 351-364, 588-601): every option but MPAQ is
\* rendered disabled
SelectDispatch ==
    /\ HasUploadCard
    /\ \E i \in DOMAIN DISPATCH_OPTIONS :
          /\ DISPATCH_OPTIONS[i] = "MPAQ"
          /\ selectedDispatch # DISPATCH_OPTIONS[i]
          /\ selectedDispatch' = DISPATCH_OPTIONS[i]
    /\ UNCHANGED <<activeTab, files, isProcessing, error, success, convertedData,
                   originalConvertedData, showInlinePreview, conversion, modification,
                   converterVars, pc, extractorVars, moduleVars, seriesVars,
                   versionVars, earlierHostVars, previewVars>>

\* onDrop(acceptedFiles) (lines 43-76)
onDrop ==
    /\ HasUploadCard
    /\ \E acceptedFiles \in FileLists(MaxDrop) :
          LET validFiles == SelectSeq(acceptedFiles, HasValidExtension)
          IN  IF Len(validFiles) = 0
              THEN error' = JsStr(ErrUpload) /\ files' = files
              ELSE IF activeTab = "mixes" /\ Len(validFiles) > 2
              THEN error' = JsStr(ErrMixFiles) /\ files' = SubSeq(validFiles, 1, 2)
              ELSE IF activeTab = "materials" /\ Len(validFiles) > 5
              THEN error' = JsStr(ErrMaxFiles) /\ files' = SubSeq(validFiles, 1, 5)
              ELSE error' = JsNull /\ files' = validFiles
    /\ success' = FALSE
    /\ convertedData' = NoWorkbook
    /\ showInlinePreview' = FALSE
    /\ UNCHANGED <<activeTab, selectedDispatch, isProcessing, originalConvertedData,
                   conversion, modification, converterVars, pc, extractorVars,
                   moduleVars, seriesVars, versionVars, earlierHostVars, previewVars>>

\* removeFile(index) (lines 90-95)
RemoveFile ==
    /\ HasUploadCard
    /\ \E index \in 0..(Len(files) - 1) :
          files' = SubSeq(files, 1, index) \o SubSeq(files, index + 2, Len(files))
    /\ success' = FALSE
    /\ convertedData' = NoWorkbook
    /\ showInlinePreview' = FALSE
    /\ UNCHANGED <<activeTab, selectedDispatch, isProcessing, error,
                   originalConvertedData, conversion, modification, converterVars, pc,
                   extractorVars, moduleVars, seriesVars, versionVars, earlierHostVars,
                   previewVars>>

\* the "Remove All Files" button of the mixes tab (lines 417-428)
RemoveAllFiles ==
    /\ activeTab = "mixes"
    /\ Len(files) > 0
    /\ files' = << >>
    /\ success' = FALSE
    /\ convertedData' = NoWorkbook
    /\ UNCHANGED <<activeTab, selectedDispatch, isProcessing, error,
                   originalConvertedData, showInlinePreview, conversion, modification,
                   converterVars, pc, extractorVars, moduleVars, seriesVars,
                   versionVars, earlierHostVars, previewVars>>

\* the Convert button (lines 465, 495-502, 689, 719-726): rendered while
\* success is false, disabled without files or dispatch system and while a
\* conversion is processing
ClickConvert ==
    /\ HasUploadCard
    /\ ~success
    /\ ~(Len(files) = 0 \/ selectedDispatch = "" \/ isProcessing)
    /\ HandleConvertStart

\* the Preview button (lines 465-475, 689-699), rendered while success
TogglePreview ==
    /\ HasUploadCard
    /\ success
    /\ showInlinePreview' = ~showInlinePreview
    /\ UNCHANGED <<activeTab, selectedDispatch, files, isProcessing, error, success,
                   convertedData, originalConvertedData, conversion, modification,
                   converterVars, pc, extractorVars, moduleVars, seriesVars,
                   versionVars, earlierHostVars, previewVars>>

\* the tables an AI transformation makes of a table (lines 905-990): here
\* the table with one more row
AiTables(rows) == { Append(rows, <<Edited>>) }

\* AIModificationPanel handleModify up to its fetch (lines 813-850): the
\* panel is rendered inside the preview (lines 522-535, 746-759) and its
\* button is disabled without a workbook and while it is processing
ModifyStart ==
    /\ HasUploadCard
    /\ success
    /\ showInlinePreview
    /\ convertedData.present
    /\ convertedData.edits < MaxEdits
    /\ modification.stage = "idle"
    /\ modification' = [stage |-> "fetching", workbook |-> convertedData]
    /\ UNCHANGED <<activeTab, selectedDispatch, files, isProcessing, error, success,
                   convertedData, originalConvertedData, showInlinePreview, conversion,
                   converterVars, pc, extractorVars, moduleVars, seriesVars,
                   versionVars, earlierHostVars, previewVars>>

\* handleModify from the answer on (lines 850-1008): the transformation
\* fails, or the new workbook is handed to onModify, which is
\* setConvertedData of the page (lines 530, 754)
ModifyFinish ==
    /\ modification.stage = "fetching"
    /\ modification' = NoModification
    /\ \/ UNCHANGED convertedData
       \/ \E rows \in AiTables(modification.workbook.rows) :
             convertedData' = [modification.workbook EXCEPT
                                 !.rows = rows, !.edits = @ + 1]
    /\ UNCHANGED <<activeTab, selectedDispatch, files, isProcessing, error, success,
                   originalConvertedData, showInlinePreview, conversion,
                   converterVars, pc, extractorVars, moduleVars, seriesVars,
                   versionVars, earlierHostVars, previewVars>>

NextHost ==
    \/ SwitchTab
    \/ SelectDispatch
    \/ onDrop
    \/ RemoveFile
    \/ RemoveAllFiles
    \/ ClickConvert
    \/ HandleConvertFinish
    \/ TogglePreview
    \/ ModifyStart
    \/ ModifyFinish

\* the page in use: the user's actions interleaved with the completions of
\* the file reads and of the AI answers
SpecHost == InitHost /\ [][NextHost]_vars

-----------------------------------------------------------------------------
(* The Command Series converter of the earlier page: processData *)

UpperChar(c) ==
    IF \E i \in 1..Len(LowerLetters) : SubSeq(LowerLetters, i, i) = c
    THEN LET i == CHOOSE i \in 1..Len(LowerLetters) : SubSeq(LowerLetters, i, i) = c
         IN  SubSeq(UpperLetters, i, i)
    ELSE c

RECURSIVE ToUpper(_)
ToUpper(s) == IF s = "" THEN "" ELSE UpperChar(First(s)) \o ToUpper(Rest(s))

\* the match of /^(\d+\.?\d*)\s*-\s*(\d+\.?\d*)$/ on str: the two groups,
\* or << >> without a match
RangeMatch(str) ==
    LET g1   == StrengthMatch(str)
        a    == Drop(str, Len(g1))
        b    == Drop(a, Len(Run(a, WhiteSpace)))
        c    == Drop(b, 1)
        d    == Drop(c, Len(Run(c, WhiteSpace)))
        g2   == StrengthMatch(d)
    IN  IF g1 # "" /\ StartsWith(b, "-") /\ g2 # "" /\ Drop(d, Len(g2)) = ""
        THEN <<g1, g2>> ELSE << >>

\* the match of the pattern without its end anchor
RangeMatchOpenEnded(str) ==
    LET g1   == StrengthMatch(str)
        a    == Drop(str, Len(g1))
        b    == Drop(a, Len(Run(a, WhiteSpace)))
        c    == Drop(b, 1)
        d    == Drop(c, Len(Run(c, WhiteSpace)))
        g2   == StrengthMatch(d)
    IN  IF g1 # "" /\ StartsWith(b, "-") /\ g2 # ""
        THEN <<g1, g2>> ELSE << >>

\* parseRange with the pattern without its end anchor
parseRangeOpenEnded(rangeStr) ==
    IF ~Truthy(rangeStr) THEN <<JsNull, JsNull>>
    ELSE LET match == RangeMatchOpenEnded(Trim(ToStr(rangeStr)))
         IN  IF match # << >>
             THEN <<ParseFloatStr(match[1]), ParseFloatStr(match[2])>>
             ELSE <<JsNull, JsNull>>

\* lines 124-132
parseRange(rangeStr) ==
    IF ~Truthy(rangeStr) THEN <<JsNull, JsNull>>
    ELSE LET match == RangeMatch(Trim(ToStr(rangeStr)))
         IN  IF match # << >>
             THEN <<ParseFloatStr(match[1]), ParseFloatStr(match[2])>>
             ELSE <<JsNull, JsNull>>

\* lines 113-118: the four header rows of the template
SeriesHeaders ==
    LET n == JsNull
    IN  << << n, n, n, n, n, n, n, n, n, n, n, n, n, n, n, n, n, n, n,
              S("Dispatch"), n, n, n, n, n >>,
           << n, n, n, n, n, S("Strength Age"), n, S("Design"), S("Minimum"),
              S("Maximum"), S("Design"), S("Minimum"), S("Maximum"), S("Max"),
              S("Max"), S("Max"), S("Max"), S("Mix Class Names"), n, S("Slump"), n,
              S("Constituent"), S("Constituent"), n, S("Unit") >>,
           << S("Plant Code"), S("Mix Name"), S("Description"),
              S("Short Description"), S("Item Category"), S("(Default - 28)"),
              S("Strength"), S("Air Content"), S("Air Content"), S("Air Content"),
              S("Slump"), S("Slump"), S("Slump"), S("Batch Size"), S("Water"),
              S("W/C+P"), S("W/C"),
              S("(Separate Mix Classes With A Semicolon (;))"), S("Mix Usage"),
              S("Range"), n, S("Item Code"), S("Item Description"), S("Quantity"),
              S("Name") >>,
           << S("(Required)"), S("(Required)"), n, n, n, S("(Days)"), S("(PSI)"),
              S("(%)"), S("(%)"), S("(%)"), S("(in)"), S("(in)"), S("(in)"),
              S("(Unitless)"), S("(gal)"), S("(Ratio)"), S("(Ratio)"), n, n,
              S("(Text)"), n, S("(Required)"), n, S("(Required)"),
              S("(Required)") >> >>

\* lines 153-176: the output row of a source row
SeriesRow(row) ==
    LET n     == JsNull
        air   == parseRange(At(row, 10))
        slump == parseRange(At(row, 12))
    IN  << At(row, 0), At(row, 2), At(row, 3), n, n, n, At(row, 7), At(row, 9),
           air[1], air[2], At(row, 11), slump[1], slump[2],
           n, n, n, n, n, n, n, n,
           At(row, 14), At(row, 15), At(row, 18), At(row, 19) >>

\* lines 149-178: the loop over the source rows, from index i on
RECURSIVE SeriesRows(_, _)
SeriesRows(data, i) ==
    IF i > Len(data) THEN << >>
    ELSE IF Len(data[i]) = 0 THEN SeriesRows(data, i + 1)
    ELSE <<SeriesRow(data[i])>> \o SeriesRows(data, i + 1)

\* a filter that drops a row when either of the two cells is AIR
IsAirRowEither(row) ==
    LET colV == At(row, 21)
        colW == At(row, 22)
    IN  \/ Truthy(colV) /\ ToUpper(Trim(ToStr(colV))) = "AIR"
        \/ Truthy(colW) /\ ToUpper(Trim(ToStr(colW))) = "AIR"

\* lines 186-194: the test of the filter
IsAirRow(row) ==
    LET colV == At(row, 21)
        colW == At(row, 22)
    IN  /\ Truthy(colV)
        /\ Truthy(colW)
        /\ ToUpper(Trim(ToStr(colV))) = "AIR"
        /\ ToUpper(Trim(ToStr(colW))) = "AIR"

\* lines 183-196: the filter keeps the rows of index below 4, which are the
\* header rows, and the other rows that are not Air rows
KeptRow(row) == ~IsAirRow(row)

\* lines 109-203: the table of the sheet "Mix Import" of the workbook
\* processData returns

processData(data) == SeriesHeaders \o SelectSeq(SeriesRows(data, 2), KeptRow)

\* the source rows a sheet holds, as sheet_to_json(header: 1) gives them
MaxSourceRows == 2

\* texts of a range cell
RangeTexts ==
    { "10-20", "10 - 20", "10  -20", "10-\t20", "1.5-2.5", "10.-20.", "20-10",
      "010-020", " 10-20 ", "0-0", "5-5.0",
      "", " ", "10", "10.5", "10-", "-10", "-5-10", "5--10", "10--20", "10-20%",
      "10-20 mm", "about 10-20", "10 to 20", ".5-1", "1-.5", "10-20-30", "1,5-2",
      "10 20", "1 0-20", "10-2 0", "+1-2", "1e1-20", "a-b", "-" }

RangeCells ==
    { S(t) : t \in RangeTexts }
    \cup { JsNull, U, JsNum("10"), JsNum("0"), JsNum("-5"), JsNaN }

AirCells ==
    { S("AIR"), S("air"), S(" Air "), S("AIRS"), S("A IR"), S(""), S("Cement"),
      JsNull, U, JsNum("0") }

\* a source row of 20 cells with the given range cells (columns 10, 12),
\* item code and item description (columns 14, 15)
SourceRow(plant, airRange, slumpRange, code, desc) ==
    << S(plant), S("x"), S("MIX-" \o plant), S("Mix of " \o plant), U, U, U,
       JsNum("4000"), U, JsNum("6"), airRange, JsNum("4"), slumpRange, U,
       code, desc, U, U, JsNum("300"), S("LB") >>

SeriesSourceHeader == [j \in 1..20 |-> S("Column " \o ToString(j))]

\* source rows that are told apart by their plant; an empty row; a row
\* that ends before the item columns
OrderedRowPool ==
    { SourceRow("P1", S("4-7"), S("3-5"), S("CEM"), S("Cement")),
      SourceRow("P2", S("5"), S("3 - 5"), S("AIR"), S("Air")),
      SourceRow("P3", S("4-7"), U, S("AIR"), S("Cement")),
      SourceRow("P4", U, S("3-5 in"), S("A1"), S(" air ")),
      << >>,
      << S("P5"), S("x"), S("MIX-P5") >> }

\* the source tables: up to MaxSourceRows rows of the ordered pool, and the
\* one-row tables over all range cells and all item cells
SourceTables ==
    { << >> }
    \cup { <<SeriesSourceHeader>> \o rows : rows \in SeqsUpTo(OrderedRowPool, MaxSourceRows) }
    \cup { <<SeriesSourceHeader, SourceRow("P1", r, S("3-5"), S("CEM"), S("Cement"))>> :
             r \in RangeCells }
    \cup { <<SeriesSourceHeader, SourceRow("P1", S("4-7"), r, S("CEM"), S("Cement"))>> :
             r \in RangeCells }
    \cup { <<SeriesSourceHeader, SourceRow("P1", S("4-7"), S("3-5"), v, w)>> :
             v \in AirCells, w \in AirCells }

\* a source table is given; processData has not run
InitSeries ==
    /\ ConverterIdle
    /\ ExtractorIdle
    /\ ModuleLoaded
    /\ PageMounted
    /\ PreviewUnmounted
    /\ NoFileHeld
    /\ VersionsIdle
    /\ pc = "input"
    /\ sourceData \in SourceTables
    /\ filteredData = << >>

\* one call processData(sourceData)
ProcessData ==
    /\ pc = "input"
    /\ filteredData' = processData(sourceData)
    /\ pc' = "processed"
    /\ UNCHANGED <<converterVars, extractorVars, moduleVars, hostVars, sourceData,
                   versionVars, earlierHostVars, previewVars>>

NextSeries == ProcessData

SpecSeries == InitSeries /\ [][NextSeries]_vars

-----------------------------------------------------------------------------
(* The earlier page: one file, the Command Series converter, a FileReader *)
(* with an onload handler only                                             *)

\* the files of the user of the earlier page
EarlierFileCatalog ==
    {"series.xlsx", "plants.xls", "empty.xlsx", "corrupt.xlsx", "broken.xls", "mixes.csv"}

\* XLSX.read throws on a file that is no spreadsheet
Parsable(name) == name # "corrupt.xlsx"

\* lines 78-86: the rows of the first sheet of a file
SheetRows(name) ==
    IF name = "series.xlsx"
    THEN <<SeriesSourceHeader,
           SourceRow("P1", S("4-7"), S("3-5"), S("CEM"), S("Cement")),
           SourceRow("P2", S("5"), S("3 - 5"), S("AIR"), S("Air"))>>
    ELSE IF name = "plants.xls"
    THEN <<SeriesSourceHeader,
           SourceRow("P3", S("4-7"), U, S("AIR"), S("Cement"))>>
    ELSE << >>

ErrExcel == "Please upload a valid Excel file (.xlsx or .xls)"

ErrSeriesNotImplemented(dispatch) ==
    "Conversion logic for " \o dispatch \o " is not yet implemented."

ErrSeriesProcessing == "Error processing file. Please check the file format."

\* the earlier page as it is mounted (lines 26-32)
InitEarlierHost ==
    /\ ConverterIdle
    /\ ExtractorIdle
    /\ ModuleLoaded
    /\ PreviewUnmounted
    /\ VersionsIdle
    /\ SeriesIdle
    /\ pc = "page"
    /\ activeTab = "mixes"
    /\ selectedDispatch = ""
    /\ file = NoFile
    /\ files = << >>
    /\ isProcessing = FALSE
    /\ error = JsNull
    /\ success = FALSE
    /\ convertedData = NoWorkbook
    /\ originalConvertedData = NoWorkbook
    /\ showInlinePreview = FALSE
    /\ conversion = NoConversion
    /\ modification = NoModification

\* Select onValueChange (lines 262-285): every option but Command Series
\* is rendered disabled
EarlierSelectDispatch ==
    /\ \E i \in DOMAIN DISPATCH_OPTIONS :
          /\ DISPATCH_OPTIONS[i] = "Command Series"
          /\ selectedDispatch # DISPATCH_OPTIONS[i]
          /\ selectedDispatch' = DISPATCH_OPTIONS[i]
    /\ UNCHANGED <<activeTab, files, isProcessing, error, success, convertedData,
                   originalConvertedData, showInlinePreview, conversion, modification,
                   converterVars, pc, extractorVars, moduleVars, seriesVars,
                   versionVars, earlierHostVars, previewVars>>

\* onDrop(acceptedFiles) of the earlier page (lines 35-49); the dropzone
\* takes one file
EarlierOnDrop ==
    /\ \E acceptedFiles \in {<< >>} \cup {<<f>> : f \in EarlierFileCatalog} :
          IF Len(acceptedFiles) > 0
          THEN LET uploadedFile == acceptedFiles[1]
               IN  IF EndsWith(uploadedFile, ".xlsx") \/ EndsWith(uploadedFile, ".xls")
                   THEN file' = uploadedFile /\ error' = JsNull
                   ELSE file' = file /\ error' = JsStr(ErrExcel)
          ELSE file' = file /\ error' = JsNull
    /\ success' = FALSE
    /\ convertedData' = NoWorkbook
    /\ UNCHANGED <<activeTab, selectedDispatch, files, isProcessing,
                   originalConvertedData, showInlinePreview, conversion, modification,
                   converterVars, pc, extractorVars, moduleVars, seriesVars,
                   versionVars, previewVars>>

\* the Remove File button (lines 340-352), rendered while a file is held
EarlierRemoveFile ==
    /\ file # NoFile
    /\ file' = NoFile
    /\ success' = FALSE
    /\ convertedData' = NoWorkbook
    /\ UNCHANGED <<activeTab, selectedDispatch, files, isProcessing, error,
                   originalConvertedData, showInlinePreview, conversion, modification,
                   converterVars, pc, extractorVars, moduleVars, seriesVars,
                   versionVars, previewVars>>

\* the Convert button (lines 385-408) and handleConvert up to
\* reader.readAsArrayBuffer(file) (lines 61-99)
EarlierClickConvert ==
    /\ ~success
    /\ ~(file = NoFile \/ selectedDispatch = "" \/ isProcessing)
    /\ IF selectedDispatch # "Command Series"
       THEN /\ error' = JsStr(ErrSeriesNotImplemented(selectedDispatch))
            /\ UNCHANGED <<isProcessing, conversion>>
       ELSE /\ isProcessing' = TRUE
            /\ error' = JsNull
            /\ conversion' = [stage |-> "reading", activeTab |-> activeTab,
                              selectedDispatch |-> selectedDispatch,
                              files |-> <<file>>, ran |-> "none"]
    /\ UNCHANGED <<activeTab, selectedDispatch, files, success, convertedData,
                   originalConvertedData, showInlinePreview, modification,
                   converterVars, pc, extractorVars, moduleVars, seriesVars,
                   versionVars, earlierHostVars, previewVars>>

\* reader.onload (lines 76-99): the read succeeded; the sheet is parsed and
\* processed, or the catch stores the message; the finally block resets
\* isProcessing
EarlierReaderLoad ==
    /\ conversion.stage = "reading"
    /\ Readable(conversion.files[1])
    /\ IF Parsable(conversion.files[1])
       THEN /\ convertedData' = Workbook("mixes", processData(SheetRows(conversion.files[1])))
            /\ success' = TRUE
            /\ conversion' = Settled("succeeded", conversion.activeTab,
                                     conversion.selectedDispatch, "processData")
            /\ UNCHANGED error
       ELSE /\ error' = JsStr(ErrSeriesProcessing)
            /\ conversion' = Settled("failed", conversion.activeTab,
                                     conversion.selectedDispatch, "none")
            /\ UNCHANGED <<success, convertedData>>
    /\ isProcessing' = FALSE
    /\ UNCHANGED <<activeTab, selectedDispatch, files, originalConvertedData,
                   showInlinePreview, modification, converterVars, pc, extractorVars,
                   moduleVars, seriesVars, versionVars, earlierHostVars, previewVars>>

\* the read fails: the reader fires its error event, for which the page
\* set no handler (lines 75-99 set onload only); no state setter runs
EarlierReaderError ==
    /\ conversion.stage = "reading"
    /\ ~Readable(conversion.files[1])
    /\ conversion' = Settled("read-failed", conversion.activeTab,
                             conversion.selectedDispatch, "none")
    /\ UNCHANGED <<activeTab, selectedDispatch, files, isProcessing, error, success,
                   convertedData, originalConvertedData, showInlinePreview,
                   modification, converterVars, pc, extractorVars, moduleVars,
                   seriesVars, versionVars, earlierHostVars, previewVars>>

NextEarlierHost ==
    \/ EarlierSelectDispatch
    \/ EarlierOnDrop
    \/ EarlierRemoveFile
    \/ EarlierClickConvert
    \/ EarlierReaderLoad
    \/ EarlierReaderError

\* the file reads of a handleConvert call come to their end: the call that
\* was waiting is settled, whichever way
ReadSettles ==
    /\ conversion.stage = "reading"
    /\ conversion' \in
          { Settled(stage, conversion.activeTab, conversion.selectedDispatch, ran) :
              stage \in {"succeeded", "failed", "read-failed"},
              ran \in {"none", "processData", "convertMPAQMixes",
                       "convertMPAQMaterials", "convertMPAQMaterialsMultiSheet"} }

\* the earlier page in use; a FileReader ends every read with a load or an
\* error event, and the browser delivers it
SpecEarlierHost ==
    /\ InitEarlierHost
    /\ [][NextEarlierHost]_vars
    /\ WF_conversion(ReadSettles)

\* the page in use; the reads of a handleConvert call settle and the call
\* runs on
SpecHostFair == SpecHost /\ WF_conversion(ReadSettles)

-----------------------------------------------------------------------------
(* PreviewSection and the AI panel inside it, on a page that has converted *)

\* the cell edits and AI modifications of a workbook go no further than this
MaxPreviewEdits == 2

rowsPerPage == 100

\* arr.slice(start, end) of a JS array
JsSlice(arr, start, end) ==
    LET n    == Len(arr)
        Clip(k) == IF k < 0 THEN (IF n + k < 0 THEN 0 ELSE n + k)
                   ELSE IF k > n THEN n ELSE k
        from == Clip(start)
        to   == Clip(end)
    IN  IF from < to THEN SubSeq(arr, from + 1, to) ELSE << >>

\* a row without its trailing holes
RECURSIVE TrimHoles(_)
TrimHoles(row) ==
    IF row = << >> THEN << >>
    ELSE IF row[Len(row)] = JsUndefined THEN TrimHoles(SubSeq(row, 1, Len(row) - 1))
    ELSE row

\* XLSX.utils.sheet_to_json(XLSX.utils.aoa_to_sheet(aoa), { header: 1 }):
\* aoa_to_sheet stores no cell for undefined and for null, a null still
\* widens the sheet's range; sheet_to_json walks the rows and columns of
\* the range, leaves a hole for a missing cell and gives [] for a blank row
sheet_to_json(aoa) ==
    LET Defined(r, c) == aoa[r][c] # JsUndefined
        rs == { r \in DOMAIN aoa : \E c \in DOMAIN aoa[r] : Defined(r, c) }
        cs == UNION { { c \in DOMAIN aoa[r] : Defined(r, c) } : r \in rs }
        r0 == CHOOSE r \in rs : \A q \in rs : r <= q
        r1 == CHOOSE r \in rs : \A q \in rs : r >= q
        c0 == CHOOSE c \in cs : \A q \in cs : c <= q
        c1 == CHOOSE c \in cs : \A q \in cs : c >= q
        Cell(r, c) == IF c \in DOMAIN aoa[r] /\ aoa[r][c] # JsNull
                      THEN aoa[r][c] ELSE JsUndefined
    IN  IF rs = {} THEN << >>
        ELSE [r \in 1..(r1 - r0 + 1) |->
                TrimHoles([c \in 1..(c1 - c0 + 1) |-> Cell(r0 + r - 1, c0 + c - 1)])]

\* lines 43-52 of PreviewSection, over the component's state
totalRows == IF Len(tableData) = 0 THEN 0 ELSE Len(tableData) - 1

totalPages == (totalRows + rowsPerPage - 1) \div rowsPerPage

startIndex == (currentPage - 1) * rowsPerPage

endIndex == startIndex + rowsPerPage

\* the columns and the rows on display
ShownColumns == IF Len(tableData) = 0 THEN 0 ELSE Len(tableData[1])

ShownRows == JsSlice(Tail(tableData), startIndex, endIndex)

\* the converted tables the preview is opened on: a header and n data rows
PreviewRow(i) ==
    IF i = 2 THEN <<S("Special Mix"), JsNum("300"), JsNum("0")>>
    ELSE IF i = 3 THEN <<S("25 MPA Mix")>>
    ELSE <<S("30 MPA"), S("12"), S("kg")>>

PreviewTable(n) ==
    << <<S("Mix Name"), S("Quantity"), S("Max Water")>> >> \o [i \in 1..n |-> PreviewRow(i)]

\* the numbers of data rows: tables of one page for the cell edits, a table
\* of two pages for the pagination
PreviewSizes == {1, 3}

PagingSizes == {101}

\* the cells the user clicks, on the page on display, and the texts typed
ClickRows == {1}

EditTexts == {"7"}

\* the page has converted a table and the user has opened the preview
\* (Home.tsx lines 215-223, 465-475, 521-535); result is what the
\* converter returned
PreviewOpenedOn(table) ==
    /\ result = [threw |-> FALSE, error |-> "", rows |-> table, trace |-> << >>]
    /\ convertedData = Workbook("mixes", table)
    /\ originalConvertedData = Workbook("mixes", table)
    /\ tableData = sheet_to_json(table)
    /\ mixData = << >>
    /\ materialsData = NoMaterials
    /\ materialsLookup = EmptyMap
    /\ ExtractorIdle
    /\ ModuleLoaded
    /\ VersionsIdle
    /\ SeriesIdle
    /\ NoFileHeld
    /\ pc = "page"
    /\ activeTab = "mixes"
    /\ selectedDispatch = "MPAQ"
    /\ files = <<"mixes.csv", "materials.xlsx">>
    /\ isProcessing = FALSE
    /\ error = JsNull
    /\ success = TRUE
    /\ showInlinePreview = TRUE
    /\ conversion = Settled("succeeded", "mixes", "MPAQ", "convertMPAQMixes")
    /\ modification = NoModification
    /\ currentPage = 1
    /\ editingCell = NoCell
    /\ editValue = ""
    /\ panelSuccess = FALSE

InitPreview == \E n \in PreviewSizes : PreviewOpenedOn(PreviewTable(n))

InitPaging == \E n \in PagingSizes : PreviewOpenedOn(PreviewTable(n))

\* what no handler of the preview writes
PageAround ==
    UNCHANGED <<activeTab, selectedDispatch, files, isProcessing, error, success,
                originalConvertedData, showInlinePreview, conversion, converterVars,
                pc, extractorVars, moduleVars, seriesVars, versionVars,
                earlierHostVars>>

\* the preview is rendered (Home.tsx line 521)
PreviewShown == success /\ showInlinePreview /\ convertedData.present

\* handleCellClick(rowIndex, colIndex) (lines 76-80) on a cell that is on
\* display and not being edited
handleCellClick ==
    /\ PreviewShown
    /\ editingCell = NoCell
    /\ \E rowIndex \in ClickRows, colIndex \in 0..(ShownColumns - 1) :
          /\ rowIndex < Len(ShownRows)
          /\ LET actualRowIndex == startIndex + rowIndex
             IN  /\ editingCell' = [row |-> actualRowIndex, col |-> colIndex]
                 /\ editValue' = ToStr(OrElse(At(Tail(tableData)[actualRowIndex + 1],
                                                 colIndex), JsStr("")))
    /\ UNCHANGED <<currentPage, tableData, panelSuccess, convertedData, modification>>
    /\ PageAround

\* the Input's onChange (line 189)
TypeText ==
    /\ PreviewShown
    /\ editingCell # NoCell
    /\ \E text \in EditTexts : text # editValue /\ editValue' = text
    /\ UNCHANGED <<currentPage, editingCell, tableData, panelSuccess, convertedData,
                   modification>>
    /\ PageAround

\* newData[actualRowIndex][col] = value on a copy of the table
WithCell(table, actualRowIndex, col, v) ==
    LET padded == IF actualRowIndex + 1 \in DOMAIN table THEN table
                  ELSE table \o [i \in 1..(actualRowIndex + 1 - Len(table)) |-> << >>]
        row    == padded[actualRowIndex + 1]
        wide   == IF col + 1 \in DOMAIN row THEN row
                  ELSE row \o [j \in 1..(col + 1 - Len(row)) |-> JsUndefined]
    IN  [padded EXCEPT ![actualRowIndex + 1] = [wide EXCEPT ![col + 1] = v]]

\* a handleCellBlur that writes the sheet into the workbook it was given,
\* which is the object originalConvertedData holds too
handleCellBlurInPlace ==
    /\ PreviewShown
    /\ editingCell # NoCell
    /\ convertedData.edits < MaxPreviewEdits
    /\ LET newData == WithCell(tableData, editingCell.row + 1, editingCell.col,
                               JsStr(editValue))
       IN  /\ convertedData' = [convertedData EXCEPT !.rows = newData, !.edits = @ + 1]
           /\ originalConvertedData' = [originalConvertedData EXCEPT !.rows = newData]
           /\ tableData' = sheet_to_json(newData)
    /\ editingCell' = NoCell
    /\ editValue' = ""
    /\ UNCHANGED <<currentPage, panelSuccess, modification>>
    /\ UNCHANGED <<activeTab, selectedDispatch, files, isProcessing, error, success,
                   showInlinePreview, conversion, converterVars, pc, extractorVars,
                   moduleVars, seriesVars, versionVars, earlierHostVars>>

\* handleCellBlur (lines 82-106): the cell is written, a new workbook is
\* made of the table and handed to onDataChange, which is setConvertedData
\* of the page (Home.tsx line 526); the effect of lines 32-39 then reads
\* the table of the new workbook
handleCellBlur ==
    /\ PreviewShown
    /\ editingCell # NoCell
    /\ convertedData.edits < MaxPreviewEdits
    /\ LET newData == WithCell(tableData, editingCell.row + 1, editingCell.col,
                               JsStr(editValue))
       IN  /\ convertedData' = [convertedData EXCEPT !.rows = newData, !.edits = @ + 1]
           /\ tableData' = sheet_to_json(newData)
    /\ editingCell' = NoCell
    /\ editValue' = ""
    /\ UNCHANGED <<currentPage, panelSuccess, modification>>
    /\ PageAround

\* handleKeyDown (lines 108-115) with the Escape key
PressEscape ==
    /\ PreviewShown
    /\ editingCell # NoCell
    /\ editingCell' = NoCell
    /\ editValue' = ""
    /\ UNCHANGED <<currentPage, tableData, panelSuccess, convertedData, modification>>
    /\ PageAround

\* the Previous button (lines 226-234)
PreviousPage ==
    /\ PreviewShown
    /\ currentPage # 1
    /\ currentPage' = (IF currentPage - 1 > 1 THEN currentPage - 1 ELSE 1)
    /\ UNCHANGED <<editingCell, editValue, tableData, panelSuccess, convertedData,
                   modification>>
    /\ PageAround

\* the Next button (lines 235-243)
NextPage ==
    /\ PreviewShown
    /\ currentPage # totalPages
    /\ currentPage' = (IF currentPage + 1 < totalPages THEN currentPage + 1
                       ELSE totalPages)
    /\ UNCHANGED <<editingCell, editValue, tableData, panelSuccess, convertedData,
                   modification>>
    /\ PageAround

\* the tables an AI transformation makes of a table in the preview: the
\* first data row only, no data row
PreviewAiTables(table) == { JsSlice(table, 0, 2), JsSlice(table, 0, 1) }

\* handleModify of the panel inside the preview up to its fetch (Home.tsx
\* lines 813-850)
PreviewModifyStart ==
    /\ PreviewShown
    /\ convertedData.edits < MaxPreviewEdits
    /\ modification.stage = "idle"
    /\ modification' = [stage |-> "fetching", workbook |-> convertedData]
    /\ panelSuccess' = FALSE
    /\ UNCHANGED <<currentPage, editingCell, editValue, tableData, convertedData>>
    /\ PageAround

\* handleModify from the answer on (Home.tsx lines 850-1008): the
\* transformation fails, or the workbook of the transformed table is handed
\* to onModify and the preview reads it
PreviewModifyFinish ==
    /\ modification.stage = "fetching"
    /\ modification' = NoModification
    /\ \/ UNCHANGED <<convertedData, tableData, panelSuccess>>
       \/ \E table \in PreviewAiTables(sheet_to_json(modification.workbook.rows)) :
             /\ convertedData' = [modification.workbook EXCEPT
                                    !.rows = table, !.edits = @ + 1]
             /\ tableData' = sheet_to_json(table)
             /\ panelSuccess' = TRUE
    /\ UNCHANGED <<currentPage, editingCell, editValue>>
    /\ PageAround

\* the Revert button of the panel (Home.tsx lines 531, 1076-1090)
Revert ==
    /\ PreviewShown
    /\ panelSuccess
    /\ originalConvertedData.present
    /\ convertedData' = originalConvertedData
    /\ tableData' = sheet_to_json(originalConvertedData.rows)
    /\ UNCHANGED <<currentPage, editingCell, editValue, panelSuccess, modification>>
    /\ PageAround

NextPreview ==
    \/ handleCellClick
    \/ TypeText
    \/ handleCellBlur
    \/ PressEscape
    \/ PreviousPage
    \/ NextPage
    \/ PreviewModifyStart
    \/ PreviewModifyFinish
    \/ Revert

\* the preview in use on a table of one page
SpecPreview == InitPreview /\ [][NextPreview]_vars

\* the preview in use on a table of several pages
SpecPaging == InitPaging /\ [][NextPreview]_vars

-----------------------------------------------------------------------------
(* Properties of convertMPAQMixes *)

Converted == pc = "converted"

Succeeded == Converted /\ ~result.threw

\* the k-th data row of the output (the row after the header row)
DataRow(k) == result.rows[k + 1]

DataRowCount == Len(result.rows) - 1

\* the position of data row k: <<record, plant, constituent>>
Origin(k) == result.trace[k]

\* a row without its Plant Code cell
ButPlant(row) == SubSeq(row, 2, Len(row))

\* a function, evaluated once
Table(f) == f @@ << >>

\* the records of the mix sheet that pass the WaterTarget filter
Passing(data) == {i \in DOMAIN data : IsValidMix(data[i])}

\* the material slots of a record that hold a constituent: a non-empty id
\* and a target that is not zero-or-empty
SlotNames ==
    {"Agg" \o ToString(i) : i \in 1..AGG_COUNT}
    \cup {"Cem" \o ToString(i) : i \in 1..CEM_COUNT}
    \cup {"Adm" \o ToString(i) : i \in 1..ADM_COUNT}

FilledSlots(row) ==
    {n \in SlotNames : /\ ~isEmptyValue(safeGet(row, n \o "Id"))
                       /\ ~isZeroOrEmpty(safeGet(row, n \o "Target"))}

\* a record's constituents: its filled slots and Water
ConstituentCount(row) == Cardinality(FilledSlots(row)) + 1

RECURSIVE SumRowsOwed(_, _)
SumRowsOwed(count, set) ==
    IF set = {} THEN 0
    ELSE LET x == CHOOSE x \in set : TRUE
         IN  5 * count[x] + SumRowsOwed(count, set \ {x})

\* C1 (row-count law): whenever convertMPAQMixes returns, the number of data
\* rows is the sum over the records that pass the WaterTarget filter of
\* 5 times the record's constituent count, and each such record has at
\* least one constituent.
C1_RowCountLaw ==
    Succeeded =>
        LET data  == DataObjects(mixData)
            pass  == Passing(data)
            count == Table([i \in pass |-> ConstituentCount(data[i])])
        IN  /\ DataRowCount = SumRowsOwed(count, pass)
            /\ \A i \in pass : Len(Constituents(data[i])) = count[i]
            /\ \A i \in pass : Len(Constituents(data[i])) >= 1

\* two passing records with different constituent counts beside each other
C1_Witness ==
    /\ Succeeded
    /\ LET data == DataObjects(mixData)
       IN  \E i, j \in Passing(data) :
              ConstituentCount(data[i]) = 1 /\ ConstituentCount(data[j]) > 3
    /\ DataRowCount > 5

\* the WaterTarget values the filter law names
WaterTargetRejected(row) ==
    LET w == IF "WaterTarget" \in DOMAIN row THEN row["WaterTarget"] ELSE JsUndefined
    IN  \/ "WaterTarget" \notin DOMAIN row
        \/ w.t \in {"null", "undefined"}
        \/ w = JsStr("") \/ w = JsStr("0")
        \/ w = JsNaN \/ w = JsNum("0")
        \/ ~Positive(ParseFloat(w))

\* C2 (filter law): a record whose WaterTarget is null, undefined, missing,
\* "", NaN, 0, "0" or does not parse to a number > 0 contributes no output
\* row; every data row derives from a record whose WaterTarget parses to a
\* number > 0 (and carries that value in its Max Water column).
C2_FilterLaw ==
    Converted =>
        LET data    == DataObjects(mixData)
            sources == {result.trace[k][1] : k \in DOMAIN result.trace}
        IN  /\ \A i \in DOMAIN data : WaterTargetRejected(data[i]) => i \notin sources
            /\ \A i \in sources :
                  /\ i \in DOMAIN data
                  /\ "WaterTarget" \in DOMAIN data[i]
                  /\ Positive(ParseFloat(data[i]["WaterTarget"]))
            /\ \A k \in DOMAIN result.trace :
                  /\ Positive(ParseFloat(At(DataRow(k), 14)))
                  /\ At(DataRow(k), 14) = data[Origin(k)[1]]["WaterTarget"]
            /\ result.threw \/ Len(result.trace) = DataRowCount

\* a rejected record stands before a record that produced rows
C2_Witness ==
    /\ Succeeded
    /\ LET data == DataObjects(mixData)
       IN  \E i, j \in DOMAIN data :
              /\ i < j
              /\ WaterTargetRejected(data[i])
              /\ \E k \in DOMAIN result.trace : Origin(k)[1] = j

\* the position after o in the order: constituents innermost, then plants,
\* then the passing records in source order (count[i] constituents for i)
NextOrigin(o, count, pass) ==
    IF o[3] < count[o[1]] THEN <<o[1], o[2], o[3] + 1>>
    ELSE IF o[2] < 5 THEN <<o[1], o[2] + 1, 1>>
    ELSE <<CHOOSE j \in pass : j > o[1] /\ \A m \in pass : m > o[1] => j <= m, 1, 1>>

\* C3 (output ordering): the rows of each valid mix are one contiguous block,
\* the blocks in source order of the mixes; inside a block the plant codes
\* 01, 02, 03, 05, 06 are the outer loop and the constituents the inner
\* loop, in derivation order.
C3_OutputOrdering ==
    Succeeded =>
        LET data  == DataObjects(mixData)
            pass  == Passing(data)
            cons  == Table([i \in pass |-> Constituents(data[i])])
            count == Table([i \in pass |-> Len(cons[i])])
        IN  /\ DataRowCount >= 1
            /\ Origin(1) = <<CHOOSE j \in pass : \A m \in pass : j <= m, 1, 1>>
            /\ \A k \in 1..(DataRowCount - 1) :
                  Origin(k + 1) = NextOrigin(Origin(k), count, pass)
            /\ \A k \in 1..DataRowCount :
                  LET o == Origin(k)
                      c == cons[o[1]][o[3]]
                  IN  /\ At(DataRow(k), 0) = JsStr(<<"01", "02", "03", "05", "06">>[o[2]])
                      /\ At(DataRow(k), 1) = safeGet(data[o[1]], "MixId")
                      /\ At(DataRow(k), 22) = OrElse(c.matName, JsStr(""))
                      /\ At(DataRow(k), 23) = c.matTarget
                      /\ At(DataRow(k), 24) = JsStr(getUnitForMaterialType(c.matType))

\* two valid mixes with different numbers of constituents, each several
C3_Witness ==
    /\ Succeeded
    /\ LET data == DataObjects(mixData)
           pass == Passing(data)
       IN  /\ Cardinality(pass) >= 2
           /\ \A i \in pass : ConstituentCount(data[i]) >= 2
           /\ \E i, j \in pass : ConstituentCount(data[i]) # ConstituentCount(data[j])

\* C4 (plant fan-out): for a valid mix and a constituent, the rows emitted for
\* the 5 plant codes agree in every column but column 0; a lone valid mix
\* with only the Water constituent yields exactly 5 rows, one per plant code
\* 01, 02, 03, 05, 06 in that order.
C4_PlantFanOut ==
    Succeeded =>
        LET data  == DataObjects(mixData)
            pass  == Passing(data)
            count == Table([i \in pass |-> ConstituentCount(data[i])])
            Of(i, c) == {k \in 1..DataRowCount : Origin(k)[1] = i /\ Origin(k)[3] = c}
        IN  /\ \A i \in pass : \A c \in 1..count[i] :
                  /\ Cardinality(Of(i, c)) = 5
                  /\ {At(DataRow(k), 0).v : k \in Of(i, c)} = {"01", "02", "03", "05", "06"}
                  /\ Cardinality({ButPlant(DataRow(k)) : k \in Of(i, c)}) = 1
            /\ \A k \in 1..DataRowCount : Len(DataRow(k)) = 25
            /\ (Cardinality(pass) = 1 /\ \A i \in pass : count[i] = 1) =>
                  /\ DataRowCount = 5
                  /\ [k \in 1..5 |-> At(DataRow(k), 0)]
                        = <<S("01"), S("02"), S("03"), S("05"), S("06")>>
                  /\ \A k \in 1..5 : At(DataRow(k), 22) = S("Water")

\* a lone Water-only mix, converted
C4_Witness ==
    /\ Succeeded
    /\ LET data == DataObjects(mixData)
           pass == Passing(data)
       IN  /\ Cardinality(pass) = 1
           /\ \A i \in pass : ConstituentCount(data[i]) = 1
    /\ DataRowCount = 5

\* the keys of the lookup built by the call
LookupKeys == {materialsLookup[i].key : i \in DOMAIN materialsLookup}

\* the trimmed material name of data row k, read off its description cell
NameOfRow(k) == Trim(ToStr(At(DataRow(k), 22)))

\* the constituents of the passing records, by record
ConstituentsOf(data) == Table([i \in Passing(data) |-> Constituents(data[i])])

\* the constituent data row k was emitted for
ConstituentOfRow(cons, k) == cons[Origin(k)[1]][Origin(k)[3]]

\* the mix sheet alone lets the conversion run to the end
MixSheetConverts ==
    /\ Len(mixData) > 0
    /\ \E i \in DOMAIN DataObjects(mixData) : IsValidMix(DataObjects(mixData)[i])
    /\ \E j \in DOMAIN mixData[1] : ToStr(mixData[1][j]) = "MixId"
    /\ \E j \in DOMAIN mixData[1] : ToStr(mixData[1][j]) = "Name"

\* C5 (lookup fallback): when a constituent's trimmed material name is not a
\* key of the lookup, or is empty, the row's Constituent Item Code (column
\* 21) is the constituent's raw material id unchanged, and the conversion
\* does not fail.
C5_LookupFallback ==
    Converted =>
        /\ MixSheetConverts => ~result.threw
        /\ ~result.threw =>
              LET cons == ConstituentsOf(DataObjects(mixData))
                  keys == LookupKeys
              IN  \A k \in 1..DataRowCount :
                     LET name == NameOfRow(k)
                     IN  (name = "" \/ name \notin keys) =>
                             At(DataRow(k), 21) = ConstituentOfRow(cons, k).matId

\* a named constituent misses a non-empty lookup and keeps its numeric id
C5_Witness ==
    /\ Succeeded
    /\ materialsLookup # EmptyMap
    /\ \E k \in 1..DataRowCount :
          /\ NameOfRow(k) = "Fly  Ash"
          /\ NameOfRow(k) \notin LookupKeys
          /\ At(DataRow(k), 21) = JsNum("7")

\* s without its spaces, in lower case
RECURSIVE Squeeze(_)
Squeeze(s) ==
    IF s = "" THEN ""
    ELSE IF First(s) \in WhiteSpace THEN Squeeze(Rest(s))
    ELSE LowerChar(First(s)) \o Squeeze(Rest(s))

\* the names that differ from a key of the lookup in case or spacing only
NearKeys == {Squeeze(key) : key \in LookupKeys}

\* C6 as stated (lookup hit): whenever the trimmed material name is exactly a
\* key of the lookup, column 21 is the lookup's code for it.
C6_HitOnEveryKey ==
    Succeeded =>
        \A k \in 1..DataRowCount :
            NameOfRow(k) \in LookupKeys =>
                At(DataRow(k), 21) = JsStr(MapGet(materialsLookup, NameOfRow(k)))

\* C6 (lookup hit, amended): whenever the trimmed material name is not empty
\* and is exactly a key of the lookup, column 21 is the lookup's code for
\* it; a name that differs from a key in letter case or in spacing, and is
\* no key itself, does not hit: column 21 is the raw material id.
C6_LookupHit ==
    Succeeded =>
        LET cons == ConstituentsOf(DataObjects(mixData))
            keys == LookupKeys
            near == NearKeys
        IN  \A k \in 1..DataRowCount :
               LET name == NameOfRow(k)
               IN  /\ (name # "" /\ name \in keys) =>
                         At(DataRow(k), 21) = JsStr(MapGet(materialsLookup, name))
                   /\ (name \notin keys /\ Squeeze(name) \in near) =>
                         At(DataRow(k), 21) = ConstituentOfRow(cons, k).matId

\* an untrimmed name hits, and names in another case and spacing do not
C6_Witness ==
    /\ Succeeded
    /\ \E k \in 1..DataRowCount :
          /\ At(DataRow(k), 22) = S(" Cement ")
          /\ At(DataRow(k), 21) = S("CEM-001")
    /\ \E k \in 1..DataRowCount :
          /\ At(DataRow(k), 22) = S("sand")
          /\ "Sand" \in LookupKeys
          /\ At(DataRow(k), 21) = S("D2")
    /\ \E k \in 1..DataRowCount :
          /\ At(DataRow(k), 22) = S("Fly  Ash")
          /\ "Fly Ash" \in LookupKeys
          /\ At(DataRow(k), 21) = JsNum("7")

\* the materials table has a header row without a cell containing both
\* "Material Type" and "Required", or without one containing "Production
\* Item Code"
DegradedHeader ==
    /\ materialsData.present
    /\ Len(materialsData.rows) > 0
    /\ LET h == materialsData.rows[1]
       IN  \/ ~\E j \in DOMAIN h : /\ Includes(ToStr(h[j]), "Material Type")
                                   /\ Includes(ToStr(h[j]), "Required")
           \/ ~\E j \in DOMAIN h : Includes(ToStr(h[j]), "Production Item Code")

\* C8 (degraded lookup): with such a header createMaterialsLookup returns an
\* empty lookup without failing, and convertMPAQMixes produces exactly what
\* it produces when no materials table is supplied (every Constituent Item
\* Code the raw material id).
C8_DegradedLookup ==
    (Converted /\ DegradedHeader) =>
        /\ materialsLookup = EmptyMap
        /\ result = convertMPAQMixes(mixData, NoMaterials)
        /\ ~result.threw =>
              LET cons == ConstituentsOf(DataObjects(mixData))
              IN  \A k \in 1..DataRowCount :
                     At(DataRow(k), 21) = ConstituentOfRow(cons, k).matId

\* a table that names Sand under an unrecognised header: Sand keeps its raw id
C8_Witness ==
    /\ Succeeded
    /\ DegradedHeader
    /\ \E i \in 2..Len(materialsData.rows) : At(materialsData.rows[i], 1) = S("Sand")
    /\ \E k \in 1..DataRowCount :
          At(DataRow(k), 22) = S("Sand") /\ At(DataRow(k), 21) = S("A1")

\* C9 (empty input): a mix table of zero rows fails with the empty-input
\* error and returns no table, whatever the materials table is.
C9_EmptyInput ==
    (Converted /\ Len(mixData) = 0) =>
        /\ result.threw
        /\ result.error = "Mix data is empty"
        /\ result.rows = << >>

\* the empty mix table beside a materials table that yields a lookup
C9_Witness ==
    /\ Converted
    /\ Len(mixData) = 0
    /\ materialsLookup # EmptyMap
    /\ result.threw

\* the header of the mix sheet has no MixId cell or no Name cell
LacksRequiredColumn ==
    /\ Len(mixData) > 0
    /\ \/ ~\E j \in DOMAIN mixData[1] : ToStr(mixData[1][j]) = "MixId"
       \/ ~\E j \in DOMAIN mixData[1] : ToStr(mixData[1][j]) = "Name"

SomeRecordPasses ==
    \E i \in DOMAIN DataObjects(mixData) : IsValidMix(DataObjects(mixData)[i])

\* C10 as stated (missing required columns): a mix table with a data record
\* whose header lacks MixId or Name fails with the missing-required-columns
\* error, also when no row would pass the WaterTarget filter.
C10_ColumnsCheckedFirst ==
    (Converted /\ LacksRequiredColumn /\ Len(mixData) >= 2) =>
        result.threw /\ result.error = "Input file must contain 'MixId' and 'Name' columns."

\* C10 (missing required columns, amended): a mix table whose header lacks
\* MixId or Name fails with the missing-required-columns error when at least
\* one record passes the WaterTarget filter; the check is made on the first
\* record that passed, after the filter, so when no record passes the
\* no-valid-rows error is reported instead.
C10_MissingRequiredColumns ==
    (Converted /\ LacksRequiredColumn) =>
        /\ result.threw
        /\ result.rows = << >>
        /\ SomeRecordPasses =>
              result.error = "Input file must contain 'MixId' and 'Name' columns."
        /\ ~SomeRecordPasses =>
              result.error = "No valid mixes found with WaterTarget > 0"

\* a sheet without a Name column whose second record passes the filter
C10_Witness ==
    /\ Converted
    /\ LacksRequiredColumn
    /\ \E j \in DOMAIN mixData[1] : ToStr(mixData[1][j]) = "MixId"
    /\ Len(mixData) = 3
    /\ ~IsValidMix(DataObjects(mixData)[1])
    /\ IsValidMix(DataObjects(mixData)[2])
    /\ result.error = "Input file must contain 'MixId' and 'Name' columns."

\* C11 (no valid rows): when the mix table has a header row and every data
\* record's WaterTarget is rejected by the filter (also when there is no
\* data record at all), convertMPAQMixes fails with the no-valid-rows
\* error and returns no table, whatever columns the header has.
C11_NoValidRows ==
    LET data == DataObjects(mixData)
    IN  (Converted /\ Len(mixData) >= 1
           /\ \A i \in DOMAIN data : WaterTargetRejected(data[i])) =>
            /\ result.threw
            /\ result.error = "No valid mixes found with WaterTarget > 0"
            /\ result.rows = << >>

\* a sheet with MixId and Name whose two records are both rejected
C11_Witness ==
    /\ Converted
    /\ Len(mixData) = 3
    /\ ~LacksRequiredColumn
    /\ \A i \in 1..2 : WaterTargetRejected(DataObjects(mixData)[i])
    /\ safeGet(DataObjects(mixData)[1], "WaterTarget") = S("-5")
    /\ result.error = "No valid mixes found with WaterTarget > 0"

\* the 25 column titles of the destination schema
DestinationTitles == [i \in DOMAIN FINAL_COLUMNS |-> JsStr(FINAL_COLUMNS[i])]

\* the columns (0-based) no conversion fills
AlwaysEmptyColumns == {8, 9, 11, 12, 13, 15, 16, 17, 18, 19, 20}

ScenarioSheet ==
    << <<S("MixId"), S("Name"), S("WaterTarget"), S("Slump")>>,
       <<S("M1"), S("30 MPA"), S("180"), S("Slump 90mm")>> >>

\* the row the scenario yields for a plant
ScenarioRow(plant) ==
    << S(plant), S("M1"), S("30 MPA"), S("M1"), S(""), JsNum("28"), JsNum("30"),
       S(""), S(""), S(""), JsNum("90"), S(""), S(""), S(""), S("180"),
       S(""), S(""), S(""), S(""), S(""), S(""),
       S("WATER"), S("Water"), S("180"), S("L") >>

\* C15 (Water synthesis): every valid mix gets exactly one Water constituent,
\* the last of its constituents: in each plant's rows of the mix the last
\* row, and no other, has unit "L"; it has description "Water" and the
\* record's WaterTarget as quantity, and with no materials table its
\* Constituent Item Code is "WATER".  The scenario sheet without a
\* materials table gives the header and the 5 scenario rows.
C15_WaterSynthesis ==
    Succeeded =>
        LET data == DataObjects(mixData)
            rows == 1..DataRowCount
            last == Table([i \in {Origin(k)[1] : k \in rows} |->
                             CHOOSE n \in 1..DataRowCount :
                                /\ \E k \in rows : Origin(k)[1] = i /\ Origin(k)[3] = n
                                /\ \A k \in rows : Origin(k)[1] = i => Origin(k)[3] <= n])
        IN  /\ \A k \in rows :
                  LET o == Origin(k)
                      row == DataRow(k)
                  IN  /\ (At(row, 24) = S("L")) <=> (o[3] = last[o[1]])
                      /\ o[3] = last[o[1]] =>
                            /\ At(row, 22) = S("Water")
                            /\ At(row, 23) = data[o[1]]["WaterTarget"]
                            /\ ~materialsData.present => At(row, 21) = S("WATER")
            /\ \A i \in DOMAIN last :
                  Cardinality({k \in rows : Origin(k)[1] = i /\ At(DataRow(k), 24) = S("L")}) = 5
            /\ (mixData = ScenarioSheet /\ ~materialsData.present) =>
                  result.rows = <<DestinationTitles,
                                  ScenarioRow("01"), ScenarioRow("02"), ScenarioRow("03"),
                                  ScenarioRow("05"), ScenarioRow("06")>>

\* the scenario sheet converted without a materials table
C15_Witness ==
    /\ Succeeded
    /\ mixData = ScenarioSheet
    /\ ~materialsData.present
    /\ DataRowCount = 5

-----------------------------------------------------------------------------
(* Properties of createMaterialsLookup *)

Built == pc = "built"

\* the header row has the two columns createMaterialsLookup looks for
ColumnsFound ==
    /\ materialsData.present
    /\ Len(materialsData.rows) > 0
    /\ \E j \in DOMAIN materialsData.rows[1] :
          LET h == ToStr(materialsData.rows[1][j])
          IN  Includes(h, "Material Type") /\ Includes(h, "Required")
    /\ \E j \in DOMAIN materialsData.rows[1] :
          Includes(ToStr(materialsData.rows[1][j]), "Production Item Code")

\* the data rows of the materials table, by their index in the table
MaterialRows == 2..Len(materialsData.rows)

TypeCell(i) ==
    At(materialsData.rows[i], FindIndex(materialsData.rows[1], IsMaterialTypeHeader))

CodeCell(i) ==
    At(materialsData.rows[i], FindIndex(materialsData.rows[1], IsProductionCodeHeader))

NameOfMaterial(i) == Trim(ToStr(TypeCell(i)))

\* the rows that name a material: a material-type cell holding text
NamingRows == {i \in MaterialRows : TypeCell(i).t = "string" /\ TypeCell(i).v # ""}

\* the rows createMaterialsLookup stores: both cells truthy
StoredRows == {i \in MaterialRows : Truthy(TypeCell(i)) /\ Truthy(CodeCell(i))}

-----------------------------------------------------------------------------
(* Properties of the field extractors *)

\* the characters i..j of s, as far as s has them
Slice(s, i, j) ==
    IF i > j \/ i > Len(s) THEN ""
    ELSE SubSeq(s, i, IF j > Len(s) THEN Len(s) ELSE j)

\* every character of s is in the set cs
AllIn(s, cs) == \A i \in 1..Len(s) : Slice(s, i, i) \in cs

\* the number a digit run denotes
NumberOf(d) == JsNum(Canonical(FALSE, d, ""))

\* the number a decimal text i, i. or i.f denotes
DecimalOf(p) ==
    IF \E k \in 1..Len(p) : Slice(p, k, k) = "."
    THEN LET k == CHOOSE k \in 1..Len(p) : Slice(p, k, k) = "."
         IN  JsNum(Canonical(FALSE, Slice(p, 1, k - 1), Slice(p, k + 1, Len(p))))
    ELSE NumberOf(p)

\* p is digits, then at most one decimal point, then digits
IsLeadingDecimal(p) ==
    /\ p # ""
    /\ First(p) \in Digits
    /\ AllIn(p, Digits \cup {"."})
    /\ Cardinality({k \in 1..Len(p) : Slice(p, k, k) = "."}) <= 1

\* the prefixes of s that are such a decimal
DecimalPrefixes(s) == {n \in 1..Len(s) : IsLeadingDecimal(Slice(s, 1, n))}

Largest(set) == CHOOSE n \in set : \A m \in set : m <= n

Smallest(set) == CHOOSE n \in set : \A m \in set : n <= m

\* C17 (strength extraction): extractStrength returns the decimal number that
\* starts at position 0 of the string (digits, an optional single decimal
\* point, optional further digits), and returns empty, never an error, when
\* the string does not start with a digit or the value is null or undefined;
\* "25 MPA Mix" gives 25, "Special Mix" gives empty, and a number that
\* appears only later in the string is never extracted.
C17_StrengthExtraction ==
    pc = "strength" =>
        LET s == ToStr(fieldValue)
        IN  /\ fieldValue.t \in {"null", "undefined"} => extracted = S("")
            /\ (fieldValue.t \notin {"null", "undefined"} /\ DecimalPrefixes(s) = {}) =>
                  extracted = S("")
            /\ (fieldValue.t \notin {"null", "undefined"} /\ DecimalPrefixes(s) # {}) =>
                  extracted = DecimalOf(Slice(s, 1, Largest(DecimalPrefixes(s))))
            /\ fieldValue = S("25 MPA Mix") => extracted = JsNum("25")
            /\ fieldValue = S("Special Mix") => extracted = S("")
            /\ fieldValue = S("0.4 Mpa Fill") => extracted = JsNum("0.4")
            /\ (fieldValue.t = "string" /\ (s = "" \/ First(s) \notin Digits)) =>
                  extracted = S("")

\* a name with a number only after a leading space, and one with two points
C17_Witness ==
    /\ pc = "strength"
    /\ \/ fieldValue = S(" 80 MPA") /\ extracted = S("")
       \/ fieldValue = S("8.05.8") /\ extracted = JsNum("8.05")

\* the positions of s where digits wrapped as 'NN'mm stand, each with the
\* position after its digits
QuotedMatches(s) ==
    UNION { { <<i, j>> : j \in {j \in (i + 2)..Len(s) :
                                  /\ Slice(s, j, j + 2) = "'mm"
                                  /\ AllIn(Slice(s, i + 1, j - 1), Digits)} }
            : i \in {i \in 1..Len(s) : Slice(s, i, i) = "'"} }

\* the positions of s where Slump, white space, digits, mm stand (in any
\* letter case), each with the bounds of its digits
SlumpMatches(s) ==
    LET starts    == {i \in 1..Len(s) : ToLower(Slice(s, i, i + 4)) = "slump"}
        digitsAt(i) == {p \in (i + 6)..Len(s) : AllIn(Slice(s, i + 5, p - 1), WhiteSpace)}
        endsAt(p)   == {q \in (p + 1)..Len(s) : /\ AllIn(Slice(s, p, q - 1), Digits)
                                                 /\ ToLower(Slice(s, q, q + 1)) = "mm"}
    IN  UNION { UNION { { <<i, p, q>> : q \in endsAt(p) } : p \in digitsAt(i) }
                : i \in starts }

\* the leftmost match of a set of matches
Leftmost(matches) == CHOOSE m \in matches : \A n \in matches : m[1] <= n[1]

IsBareNumber(t) ==
    LET u == IF StartsWith(t, "-") \/ StartsWith(t, "+") THEN Rest(t) ELSE t
    IN  /\ u # ""
        /\ AllIn(u, Digits \cup {"."})
        /\ \E k \in 1..Len(u) : Slice(u, k, k) \in Digits
        /\ Cardinality({k \in 1..Len(u) : Slice(u, k, k) = "."}) <= 1

\* C20 (bare-number slump): a slump string that matches neither 'NN'mm nor
\* Slump NNmm gives a number only when the entire trimmed string is a bare
\* number; one that merely begins with digits followed by other text gives
\* empty.
C20_BareNumberOnly ==
    (pc = "slump" /\ fieldValue.t = "string") =>
        LET s == fieldValue.v
        IN  (QuotedMatches(s) = {} /\ SlumpMatches(s) = {} /\ ~IsBareNumber(Trim(s))) =>
                extracted = S("")

-----------------------------------------------------------------------------
(* Properties of repeated calls *)

\* C12 (purity): two calls of convertMPAQMixes with equal mix table and equal
\* materials table return equal tables, or fail with the same error,
\* whatever calls were made before and between them.
C12_Purity ==
    \A i, j \in DOMAIN calls :
        (calls[i].mixData = calls[j].mixData
           /\ calls[i].materialsData = calls[j].materialsData) =>
            /\ calls[i].returned.threw = calls[j].returned.threw
            /\ calls[i].returned.error = calls[j].returned.error
            /\ calls[i].returned.rows = calls[j].returned.rows

\* the first and the third call convert one sheet without a materials table,
\* the call between them converts with a lookup that maps its names
C12_Witness ==
    /\ Len(calls) = 3
    /\ calls[1].mixData = calls[3].mixData
    /\ ~calls[1].materialsData.present /\ ~calls[3].materialsData.present
    /\ calls[2].materialsData.present
    /\ ~calls[1].returned.threw /\ ~calls[2].returned.threw
    /\ calls[2].returned.rows # calls[1].returned.rows
    /\ calls[3].returned.rows = calls[1].returned.rows
    /\ Len(calls[3].returned.rows) > 6

\* C13 (no sharing across invocations): whatever a caller wrote into the rows
\* of tables returned earlier, the header row included, every call returns
\* the header row of the 25 column titles and the data rows of its own
\* arguments, and the rows of the earlier tables the caller did not write
\* are as they were returned.
C13_NoSharing ==
    \A j \in DOMAIN calls :
        LET fresh == convertMPAQMixes(calls[j].mixData, calls[j].materialsData)
        IN  /\ calls[j].returned.threw = fresh.threw
            /\ calls[j].returned.rows = fresh.rows
            /\ ~fresh.threw => calls[j].returned.rows[1] = DestinationTitles

-----------------------------------------------------------------------------
(* Properties of the conversion page *)

\* the (tab, dispatch system) pairs handleConvert has a converter for
Implemented(tab, dispatch) == dispatch = "MPAQ" /\ tab \in {"mixes", "materials"}

\* a handleConvert call has run to its end
HandleConvertSettled == conversion.stage \in {"failed", "succeeded"}

HandleConvertFails ==
    /\ HandleConvertStart \/ HandleConvertFinish
    /\ conversion'.stage = "failed"

\* C19 (all-or-nothing): the step that ends a failed handleConvert call
\* leaves the page with error set, success false and convertedData null,
\* so that no workbook is stored after a failed conversion.
C19_AllOrNothing ==
    [][HandleConvertFails =>
         /\ error'.t = "string"
         /\ ~success'
         /\ ~convertedData'.present]_vars

-----------------------------------------------------------------------------
(* Properties of the constituent derivation *)

\* the slots in the order the claim scans them: Aggregate 1..6, Cement
\* 1..4, Admixture 1..8
SlotsInOrder ==
    [i \in 1..AGG_COUNT |-> <<"Aggregate", "Agg" \o ToString(i)>>]
    \o [i \in 1..CEM_COUNT |-> <<"Cement", "Cem" \o ToString(i)>>]
    \o [i \in 1..ADM_COUNT |-> <<"Admixture", "Adm" \o ToString(i)>>]

EmptyCells == { JsNull, JsUndefined, JsStr(""), JsNaN }

ZeroOrEmptyCells == EmptyCells \cup { JsNum("0"), JsStr("0") }

\* the cell of a record under a column, "" when the record has no such column
CellOf(row, col) == IF col \in DOMAIN row THEN row[col] ELSE JsStr("")

SlotHeld(row, slot) ==
    /\ CellOf(row, slot[2] \o "Id") \notin EmptyCells
    /\ CellOf(row, slot[2] \o "Target") \notin ZeroOrEmptyCells

\* the slots of a record that are included, in scanning order
HeldSlots(row) ==
    LET Held(slot) == SlotHeld(row, slot) IN SelectSeq(SlotsInOrder, Held)

UnitOfType(matType) ==
    IF matType \in {"Aggregate", "Cement"} THEN "kg/m^3"
    ELSE IF matType = "Admixture" THEN "mL/100kg CM"
    ELSE "L"

\* C21 (constituent derivation): the constituents of a valid record are its
\* included slots in the order Aggregate 1-6, Cement 1-4, Admixture 1-8,
\* then Water; a slot is included exactly when its Id is none of null,
\* undefined, "", NaN and its Target none of null, undefined, "", NaN, 0,
\* "0"; a constituent carries the slot's Id, Name and Target as they are,
\* and its rows show the Id as item code (no lookup), the Target as
\* quantity and the unit of its type.
C21_ConstituentDerivation ==
    Succeeded =>
        LET row  == DataObjects(mixData)[1]
            held == HeldSlots(row)
            cons == Constituents(row)
        IN  /\ Len(cons) = Len(held) + 1
            /\ DataRowCount = Len(PLANTS) * Len(cons)
            /\ \A k \in DOMAIN held :
                  /\ cons[k] = [matType   |-> held[k][1],
                                matId     |-> CellOf(row, held[k][2] \o "Id"),
                                matName   |-> CellOf(row, held[k][2] \o "Name"),
                                matTarget |-> CellOf(row, held[k][2] \o "Target")]
                  /\ \A p \in DOMAIN PLANTS :
                        LET out == DataRow((p - 1) * Len(cons) + k)
                        IN  /\ At(out, 21) = CellOf(row, held[k][2] \o "Id")
                            /\ At(out, 23) = CellOf(row, held[k][2] \o "Target")
                            /\ At(out, 24) = JsStr(UnitOfType(held[k][1]))

\* the last Aggregate slot holds the numeric id 0 and the target "0.0": it
\* is included, between the Aggregate and the Cement of the sheet
C21_Witness ==
    /\ Succeeded
    /\ mixData = SlotSheet("Agg6", JsNum("0"), JsStr("Probe"), JsStr("0.0"))
    /\ DataRowCount = 25
    /\ At(DataRow(1), 21) = JsStr("A2")
    /\ At(DataRow(2), 21) = JsNum("0")
    /\ At(DataRow(3), 21) = JsStr("C2")
    /\ At(DataRow(4), 21) = JsStr("D2")

-----------------------------------------------------------------------------
(* Properties of the lookup insertion *)

\* the rows of the materials table whose two cells are both non-empty; a
\* cell holding the number 0 is not empty
NonEmptyRows ==
    {i \in MaterialRows : TypeCell(i) \notin EmptyCells /\ CodeCell(i) \notin EmptyCells}

\* C22 (lookup insertion): with both columns found, the lookup has the
\* trimmed name of every data row whose two cells are non-empty (a numeric
\* 0 included) as a key, mapped to the trimmed code of the first such row
\* of that name, and has no key from a row with an empty cell.
C22_LookupInsertion ==
    (Built /\ ColumnsFound) =>
        /\ \A i \in NonEmptyRows :
              /\ MapHas(materialsLookup, NameOfMaterial(i))
              /\ (\A m \in NonEmptyRows : m < i => NameOfMaterial(m) # NameOfMaterial(i)) =>
                    MapGet(materialsLookup, NameOfMaterial(i)) = Trim(ToStr(CodeCell(i)))
        /\ LookupKeys = {NameOfMaterial(i) : i \in NonEmptyRows}

-----------------------------------------------------------------------------
(* Properties of processData *)

Processed == pc = "processed"

\* the source rows that hold cells, by their index in the table
FilledSourceRows == {i \in 2..Len(sourceData) : Len(sourceData[i]) > 0}

\* a cell that reads AIR, whatever its case and the space around it
ReadsAir(cell) == cell.t = "string" /\ ToLower(Trim(cell.v)) = "air"

\* the source rows the claim keeps: all but those whose item code and item
\* description both read AIR
KeptSourceRows ==
    {i \in FilledSourceRows :
        ~(ReadsAir(At(sourceData[i], 14)) /\ ReadsAir(At(sourceData[i], 15)))}

\* the output row of a kept source row: the header rows, then the kept
\* rows in source order
OutputOf(i) == filteredData[4 + Cardinality({m \in KeptSourceRows : m <= i})]

\* the places t can be cut into number, spaces, hyphen, spaces, number:
\* <<end of the first number, hyphen, start of the second number>>
RangeCuts(t) ==
    UNION { UNION { { <<a, h, b>> : b \in { b \in (h + 1)..Len(t) :
                                              /\ AllIn(Slice(t, h + 1, b - 1), WhiteSpace)
                                              /\ IsLeadingDecimal(Slice(t, b, Len(t))) } } :
                      a \in { a \in 1..(h - 1) :
                                /\ IsLeadingDecimal(Slice(t, 1, a))
                                /\ AllIn(Slice(t, a + 1, h - 1), WhiteSpace) } } :
            h \in { h \in 1..Len(t) : Slice(t, h, h) = "-" } }

\* the pair the claim gives for a cell: (min, max) for a text that is
\* strictly number - number once trimmed, both empty for anything else
RangePair(cell) ==
    LET t == IF cell.t = "string" THEN Trim(cell.v) ELSE ""
    IN  IF RangeCuts(t) = {} THEN <<JsNull, JsNull>>
        ELSE LET c == CHOOSE c \in RangeCuts(t) : TRUE
             IN  <<DecimalOf(Slice(t, 1, c[1])), DecimalOf(Slice(t, c[3], Len(t)))>>

\* C23 (range splitting): in every output row of processData, Min/Max Air
\* (columns 8, 9) are the pair of the source row's cell 10 and Min/Max
\* Slump (columns 11, 12) the pair of its cell 12, where the pair is the
\* two numbers of a trimmed text of the form number, optional spaces,
\* hyphen, optional spaces, number, and both empty for every other cell
\* (empty, a single number, extra text, negative numbers).
C23_RangeSplitting ==
    Processed =>
        \A i \in KeptSourceRows :
            /\ At(OutputOf(i), 8) = RangePair(At(sourceData[i], 10))[1]
            /\ At(OutputOf(i), 9) = RangePair(At(sourceData[i], 10))[2]
            /\ At(OutputOf(i), 11) = RangePair(At(sourceData[i], 12))[1]
            /\ At(OutputOf(i), 12) = RangePair(At(sourceData[i], 12))[2]

\* a row with the air range "10 - 20" and the slump range "3-5"
C23_Witness ==
    /\ Processed
    /\ Len(sourceData) = 2
    /\ At(sourceData[2], 10) = JsStr("10 - 20")
    /\ At(filteredData[5], 8) = JsNum("10")
    /\ At(filteredData[5], 9) = JsNum("20")
    /\ At(filteredData[5], 11) = JsNum("3")
    /\ At(filteredData[5], 12) = JsNum("5")

\* C24 (AIR exclusion): the output of processData is the 4 header rows
\* followed by one row of 25 cells for each source row that holds cells, in
\* source order, without the rows whose Item Code (column 21) and Item
\* Description (column 22) both read AIR after trimming, whatever the
\* case; a row where only one of the two reads AIR is kept.
C24_AirExclusion ==
    Processed =>
        /\ Len(filteredData) = 4 + Cardinality(KeptSourceRows)
        /\ SubSeq(filteredData, 1, 4) = SeriesHeaders
        /\ \A i \in KeptSourceRows :
              /\ Len(OutputOf(i)) = 25
              /\ At(OutputOf(i), 0) = At(sourceData[i], 0)
              /\ At(OutputOf(i), 1) = At(sourceData[i], 2)
              /\ At(OutputOf(i), 21) = At(sourceData[i], 14)
              /\ At(OutputOf(i), 22) = At(sourceData[i], 15)

\* of two source rows the first (AIR, Air) is dropped and the second (AIR,
\* Cement) is kept
C24_Witness ==
    /\ Processed
    /\ Len(sourceData) = 3
    /\ At(sourceData[2], 0) = JsStr("P2")
    /\ At(sourceData[3], 0) = JsStr("P3")
    /\ Len(filteredData) = 5
    /\ At(filteredData[5], 0) = JsStr("P3")
    /\ At(filteredData[5], 21) = JsStr("AIR")

-----------------------------------------------------------------------------
(* Properties of the two versions of convertMPAQMixes *)

\* the columns of the mix sheet that hold a material's name
MaterialNameColumns ==
    IF Len(mixData) = 0 THEN {}
    ELSE { j \in DOMAIN mixData[1] :
             /\ mixData[1][j].t = "string"
             /\ mixData[1][j].v # "Name"
             /\ EndsWith(mixData[1][j].v, "Name") }

\* the trimmed material names of the mix table, and "Water"
TrimmedMixNames ==
    {"Water"} \cup
    { Trim(ToStr(mixData[i][j])) :
        <<i, j>> \in { p \in (2 .. Len(mixData)) \X MaterialNameColumns :
                         /\ p[2] \in DOMAIN mixData[p[1]]
                         /\ Truthy(mixData[p[1]][p[2]]) } }

MaterialsLackColumns ==
    /\ materialsData.present
    /\ Len(materialsData.rows) > 0
    /\ \/ FindIndex(materialsData.rows[1], IsMaterialTypeHeader) = -1
       \/ FindIndex(materialsData.rows[1], IsProductionCodeHeader) = -1

LookupMissesMix == \A n \in TrimmedMixNames : ~MapHas(materialsLookup, n)

BothVersionsRan == pc = "compared"

SameOutcome ==
    /\ result.threw = earlierResult.threw
    /\ result.error = earlierResult.error
    /\ result.rows = earlierResult.rows

\* C25: the version with the materials lookup and the earlier one return the
\* same table, or fail with the same error, whenever the materials table is
\* absent, empty, lacks the two columns, or gives a lookup holding none of
\* the mix's trimmed material names nor "Water"
C25_VersionEquivalence ==
    (/\ BothVersionsRan
     /\ \/ ~materialsData.present
        \/ Len(materialsData.rows) = 0
        \/ MaterialsLackColumns
        \/ LookupMissesMix)
    => SameOutcome

\* both versions returned the rows of a mix with named materials while the
\* lookup held entries, none of them under a name of the mix
C25_Witness ==
    /\ BothVersionsRan
    /\ materialsLookup # EmptyMap
    /\ LookupMissesMix
    /\ Cardinality(TrimmedMixNames) > 1
    /\ ~result.threw
    /\ Len(result.rows) > 1 + Len(PLANTS)
    /\ result.rows = earlierResult.rows

\* with a lookup entry under a name of the mix the two tables differ
VersionsDiffer == BothVersionsRan /\ ~LookupMissesMix /\ ~SameOutcome

-----------------------------------------------------------------------------
(* Properties of the page while a conversion is reading its files *)

\* a handleConvert call that was waiting for its reads stores its result
ConversionLands ==
    /\ conversion.stage = "reading"
    /\ conversion'.stage = "succeeded"
    /\ success'

\* C26: no stale result: a conversion that completes marks the page
\* successful only with a result made from the files the page holds and the
\* tab that is active by then, so that whenever success is true the stored
\* convertedData comes from the held files under the active tab
C26_NoStaleResult ==
    [][ConversionLands =>
          /\ conversion.files = files'
          /\ conversion.activeTab = activeTab']_vars

\* the page shows success over a workbook of the other tab
StaleTabShown ==
    /\ success
    /\ convertedData.present
    /\ convertedData.sheetName # (IF activeTab = "mixes" THEN "Mix Import"
                                  ELSE "Material Import")

\* the page shows success while it holds no file
SuccessWithoutFiles == success /\ files = << >>

-----------------------------------------------------------------------------
(* Properties of isProcessing *)

\* C27: every conversion that handleConvert starts leaves isProcessing
\* false in the end, whether it succeeds, the converter throws or the read
\* of the file fails
C27_ConversionSettles == isProcessing ~> ~isProcessing

\* the earlier page is stuck: the read failed and isProcessing stays true
ConvertDisabledForever == conversion.stage = "read-failed" /\ isProcessing

-----------------------------------------------------------------------------
(* Properties of Revert *)

\* C28: cell edits and AI modifications leave the original workbook as the
\* conversion stored it, and Revert sets convertedData to a workbook whose
\* table is the table the conversion produced
C28_RevertRestores ==
    [][/\ originalConvertedData' = originalConvertedData
       /\ originalConvertedData.rows = result.rows
       /\ Revert => /\ convertedData'.present
                    /\ convertedData'.rows = result.rows
                    /\ tableData' = sheet_to_json(result.rows)]_vars

\* Revert has been invoked after an AI modification: the panel shows its
\* success and the page holds the table of the conversion again
C28_Witness ==
    /\ panelSuccess
    /\ modification.stage = "idle"
    /\ convertedData.present
    /\ convertedData.edits = 0
    /\ convertedData.rows = result.rows
    /\ Len(result.rows) > 1

\* a cell edit and an AI modification have replaced the table
EditedAndModified ==
    /\ panelSuccess
    /\ convertedData.edits = 2
    /\ convertedData.rows # result.rows

-----------------------------------------------------------------------------
(* Properties of the pagination *)

\* the page number is beyond the last page
PageBeyondLast ==
    PreviewShown /\ currentPage > (IF totalPages > 1 THEN totalPages ELSE 1)

\* the slice on display starts before the first row
NegativeStart == PreviewShown /\ startIndex < 0

\* C29: in the preview currentPage stays within 1..max(1, totalPages), where
\* totalPages = ceil(data rows / 100), and the start index of the slice on
\* display is never negative
C29_PaginationBounds ==
    PreviewShown =>
        /\ 1 <= currentPage
        /\ currentPage <= (IF totalPages > 1 THEN totalPages ELSE 1)
        /\ totalPages * rowsPerPage >= totalRows
        /\ (totalPages - 1) * rowsPerPage < totalRows \/ totalRows = 0
        /\ startIndex >= 0

-----------------------------------------------------------------------------
(* Properties of the cell editing *)

\* the cell (r, c) of a table, r counted from the header row, both from 0
CellIn(table, r, c) == IF r + 1 \in DOMAIN table THEN At(table[r + 1], c) ELSE JsUndefined

LongestRow(table) ==
    IF table = << >> THEN 0
    ELSE LET r == CHOOSE r \in DOMAIN table :
                    \A q \in DOMAIN table : Len(table[r]) >= Len(table[q])
         IN  Len(table[r])

\* the cells of either table
CellsOfBoth(t1, t2) ==
    (0 .. (IF Len(t1) > Len(t2) THEN Len(t1) ELSE Len(t2)))
    \X (0 .. (IF LongestRow(t1) > LongestRow(t2) THEN LongestRow(t1) ELSE LongestRow(t2)))

\* the text the input was opened with
OpeningText == ToStr(OrElse(CellIn(tableData, editingCell.row + 1, editingCell.col), JsStr("")))

\* committing the text the input was opened with leaves every cell as it was
UnchangedCommitKeepsCells ==
    (handleCellBlur /\ editValue = OpeningText) =>
        \A p \in CellsOfBoth(tableData, tableData') :
            CellIn(tableData', p[1], p[2]) = CellIn(tableData, p[1], p[2])

\* committing another text writes the edited cell and no other cell
ChangedCommitTouchesOneCell ==
    (handleCellBlur /\ editValue # OpeningText) =>
        /\ CellIn(tableData', editingCell.row + 1, editingCell.col) = JsStr(editValue)
        /\ \A p \in CellsOfBoth(tableData, tableData') :
              p # <<editingCell.row + 1, editingCell.col>> =>
                  CellIn(tableData', p[1], p[2]) = CellIn(tableData, p[1], p[2])

\* Escape hands no workbook to onDataChange and leaves the table
EscapeChangesNothing ==
    PressEscape => convertedData' = convertedData /\ tableData' = tableData

\* C30: committing a cell without changing its text leaves the table's cell
\* values unchanged, committing a changed text modifies only the edited
\* cell, and Escape changes nothing and does not call onDataChange
C30_CellEditFrame ==
    [][/\ UnchangedCommitKeepsCells
       /\ ChangedCommitTouchesOneCell
       /\ EscapeChangesNothing]_vars

C30_ChangedCommit == [][ChangedCommitTouchesOneCell]_vars

C30_Escape == [][EscapeChangesNothing]_vars

C30_UnchangedCommit == [][UnchangedCommitKeepsCells]_vars

\* an unchanged commit on a cell that held a string
UnchangedCommitOnStrings ==
    [][(handleCellBlur /\ editValue = OpeningText
        /\ CellIn(tableData, editingCell.row + 1, editingCell.col).t = "string")
       => \A p \in CellsOfBoth(tableData, tableData') :
              CellIn(tableData', p[1], p[2]) = CellIn(tableData, p[1], p[2])]_vars

=============================================================================
